---- MODULE Spec2Model ----
(***************************************************************************)
(* A model of the SkyMind decision pipeline: cache-key derivation,         *)
(* normalization, deduplication, ranking and the cache-first orchestrator. *)
(*                                                                         *)
(* Conventions.                                                            *)
(*   - Money is an integer number of cents (total_usd = 10000 is $100).    *)
(*   - A datetime is an integer number of seconds after                    *)
(*     2024-06-15T00:00:00; all datetimes share one timezone.              *)
(*   - Scores are integers in hundredths (a score of 100.0 is 10000);      *)
(*     weights and trust/on-time proxies are integers in hundredths.       *)
(*   - Optional[T] is a sequence: <<>> is None, <<v>> is the value v.      *)
(*   - A Python list is a sequence; an object that the code mutates in     *)
(*     place is an element of a sequence "objs" and is referred to by its  *)
(*     index (its identity).                                               *)
(***************************************************************************)
EXTENDS Integers, Sequences, FiniteSets, TLC

VARIABLES
    \* --- cache-key harness (CacheManager._generate_cache_key)
    kA, kB, keyA, keyB, kpc,
    \* --- deduplicator harness (ItineraryDeduplicator)
    objs, dIn, dOut, dCalls,
    \* --- normalizer harness (ItineraryNormalizer)
    nIn, nObj, nOut, npc,
    \* --- price advisor harness (PricePredictor._analyze)
    aDays, aDow, aMonth, aOut,
    \* --- ranker harness (ItineraryRanker, get_category_winners)
    rIntent, rIn, rWeights, rOut, rWin,
    \* --- provider harness (AmadeusProvider)
    pCreds, pToken, pData, pOut,
    \* --- orchestrator and cache (SearchOrchestrator, CacheManager, redis)
    dataset, started, enabled, redis_client, redisUp, store,
    pc, intent, batch, ret, stages, lookup, wrote

vars == <<kA, kB, keyA, keyB, kpc, objs, dIn, dOut, dCalls, nIn, nObj, nOut, npc,
          aDays, aDow, aMonth, aOut, rIntent, rIn, rWeights, rOut, rWin,
          pCreds, pToken, pData, pOut,
          dataset, started, enabled, redis_client, redisUp, store,
          pc, intent, batch, ret, stages, lookup, wrote>>

keyVars == <<kA, kB, keyA, keyB, kpc>>
dedupeVars == <<objs, dIn, dOut, dCalls>>
normVars == <<nIn, nObj, nOut, npc>>
adviseVars == <<aDays, aDow, aMonth, aOut>>
rankVars == <<rIntent, rIn, rWeights, rOut, rWin>>
providerVars == <<pCreds, pToken, pData, pOut>>
searchVars == <<dataset, started, enabled, redis_client, redisUp, store,
                pc, intent, batch, ret, stages, lookup, wrote>>

-----------------------------------------------------------------------------
(* Python values *)

None == <<>>
Some(v) == <<v>>

\* bool(x) of an Optional number: None and 0 are falsy
Truthy(o) == o # None /\ o[1] # 0

\* int(x) of a quotient: truncation toward zero
TruncDiv(a, b) == IF a >= 0 THEN a \div b ELSE -((-a) \div b)

Range(s) == {s[i] : i \in DOMAIN s}

RECURSIVE Join(_, _)
\* sep.join(parts)
Join(parts, sep) ==
    IF parts = <<>> THEN ""
    ELSE IF Len(parts) = 1 THEN parts[1]
    ELSE parts[1] \o sep \o Join(Tail(parts), sep)

RECURSIVE TupleLess(_, _)
\* Python's < on tuples of numbers of equal length
TupleLess(a, b) ==
    IF a = <<>> THEN FALSE
    ELSE IF a[1] < b[1] THEN TRUE
    ELSE IF a[1] > b[1] THEN FALSE
    ELSE TupleLess(Tail(a), Tail(b))

RECURSIVE InsertByKey(_, _, _)
\* insert index i behind every element whose key is <= keys[i]
InsertByKey(srt, i, keys) ==
    IF srt = <<>> THEN <<i>>
    ELSE IF TupleLess(keys[i], keys[Head(srt)]) THEN <<i>> \o srt
    ELSE <<Head(srt)>> \o InsertByKey(Tail(srt), i, keys)

RECURSIVE SortPrefix(_, _)
SortPrefix(n, keys) ==
    IF n = 0 THEN <<>> ELSE InsertByKey(SortPrefix(n - 1, keys), n, keys)

\* sorted(range(len(keys)), key=keys.__getitem__): Python's sort is stable.
\* The result is the sequence of positions of keys in sorted order.
sorted(keys) == SortPrefix(Len(keys), keys)

-----------------------------------------------------------------------------
(* Strings that the code orders or formats *)

\* The airport codes of the model, in Python's string order; sorted() on codes
\* orders them by their position here.
AirportCodes == <<"BOS", "JFK", "LAX">>

CodeRank(c) == CHOOSE i \in DOMAIN AirportCodes : AirportCodes[i] = c

\* sorted(codes) for a list of airport codes
SortedCodes(codes) ==
    LET p == sorted([i \in DOMAIN codes |-> <<CodeRank(codes[i])>>])
    IN  [i \in DOMAIN codes |-> codes[p[i]]]

SecondsPerDay == 24 * 3600

\* datetime fields
DayOf(t) == t \div SecondsPerDay
HourOf(t) == (t % SecondsPerDay) \div 3600

TwoDigits(n) == IF n < 10 THEN "0" \o ToString(n) ELSE ToString(n)

\* dt.strftime("%Y-%m-%d"), for the days of June 2024 from the 15th on
StrftimeDashed(t) == "2024-06-" \o TwoDigits(15 + DayOf(t))

\* dt.strftime("%Y%m%d")
StrftimeCompact(t) == "202406" \o TwoDigits(15 + DayOf(t))

-----------------------------------------------------------------------------
(* CacheManager._generate_cache_key *)

\* str(intent.max_stops or "any")
StopsPart(max_stops) ==
    IF Truthy(max_stops) THEN ToString(max_stops[1]) ELSE "any"

\* a plausible slip: the origin list joined as given, unsorted
KeyPartsUnsorted(i) ==
    <<"search", Join(i.origins, "-"), Join(SortedCodes(i.destinations), "-"),
      StrftimeDashed(i.departure_date), i.cabin_class,
      StopsPart(i.max_stops), i.priority>>
    \o (IF i.nonstop_only THEN <<"nonstop">> ELSE <<>>)
    \o (IF Truthy(i.max_price_usd)
        THEN <<"maxprice" \o ToString(TruncDiv(i.max_price_usd[1], 100))>>
        ELSE <<>>)

key_parts(i) ==
    <<"search", Join(SortedCodes(i.origins), "-"),
      Join(SortedCodes(i.destinations), "-"),
      StrftimeDashed(i.departure_date), i.cabin_class,
      StopsPart(i.max_stops), i.priority>>
    \o (IF i.nonstop_only THEN <<"nonstop">> ELSE <<>>)
    \o (IF Truthy(i.max_price_usd)
        THEN <<"maxprice" \o ToString(TruncDiv(i.max_price_usd[1], 100))>>
        ELSE <<>>)

_generate_cache_key(i) == Join(key_parts(i), ":")

-----------------------------------------------------------------------------
(* SearchIntent (schema.py) *)

DefaultIntent ==
    [origins |-> <<"JFK">>, destinations |-> <<"LAX">>, departure_date |-> 0,
     cabin_class |-> "economy", max_stops |-> None, nonstop_only |-> FALSE,
     max_price_usd |-> None, max_duration_hours |-> None,
     no_red_eyes |-> FALSE, no_overnight_layovers |-> FALSE,
     priority |-> "balanced"]

\* longest origin/destination list of the cache-key harness
MaxCodes == 2
\* largest max_stops of the cache-key harness
MaxStopsBound == 2

\* lists of distinct airport codes, of length 1..MaxCodes
CodeLists ==
    UNION {{s \in [1..n -> Range(AirportCodes)] :
                \A i, j \in 1..n : i # j => s[i] # s[j]} : n \in 1..MaxCodes}

OptStops == {None} \cup {Some(n) : n \in 0..MaxStopsBound}

\* $299.50: a ceiling that int() truncates
KeyPrices == {None, Some(29950)}

KeyIntents ==
    {[DefaultIntent EXCEPT !.origins = o, !.destinations = d, !.max_stops = m,
                           !.nonstop_only = n, !.max_price_usd = p] :
        o \in CodeLists, d \in CodeLists, m \in OptStops, n \in BOOLEAN,
        p \in KeyPrices}

IsPermutation(s, t) == Len(s) = Len(t) /\ Range(s) = Range(t)

\* the second intent of the harness: the first one with its origins, its
\* destinations or its max_stops replaced
KeyVariants(a) ==
    {[a EXCEPT !.origins = o] : o \in CodeLists}
    \cup {[a EXCEPT !.destinations = d] : d \in CodeLists}
    \cup {[a EXCEPT !.max_stops = m] : m \in OptStops}
    \cup {[a EXCEPT !.origins = o, !.destinations = d] :
            o \in {x \in CodeLists : IsPermutation(x, a.origins)},
            d \in {x \in CodeLists : IsPermutation(x, a.destinations)}}

KeyInit ==
    /\ kA \in KeyIntents
    /\ kB = kA
    /\ keyA = ""
    /\ keyB = ""
    /\ kpc = "init"

KeyFirst ==
    /\ kpc = "init"
    /\ keyA' = _generate_cache_key(kA)
    /\ kpc' = "one"
    /\ UNCHANGED <<kA, kB, keyB>>

KeySecond ==
    /\ kpc = "one"
    /\ \E b \in KeyVariants(kA) :
        /\ kB' = b
        /\ keyB' = _generate_cache_key(b)
    /\ kpc' = "two"
    /\ UNCHANGED <<kA, keyA>>

-----------------------------------------------------------------------------
(* Itinerary, Leg, Layover, Baggage (schema.py) *)

MkLeg(o, d, dep, arr, code, num) ==
    [origin |-> [code |-> o], destination |-> [code |-> d],
     departure_time |-> dep, arrival_time |-> arr,
     airline_code |-> code, flight_number |-> num]

MkLayover(dur, overnight, change) ==
    [duration_minutes |-> dur, overnight |-> overnight, airport_change |-> change]

MkBaggage(type, included) == [type |-> type, included |-> included]

\* An itinerary as a provider supplies it: legs, layovers and baggage, the
\* provider's own derived fields, and nothing computed downstream yet.
MkItinerary(id, legs, layovers, stops, dur, direct, cents, bags, flags, ontime, pname, trust, notes) ==
    [itinerary_id |-> id, legs |-> legs, layovers |-> layovers,
     num_stops |-> stops, total_duration_minutes |-> dur, is_direct |-> direct,
     price |-> [total_usd |-> cents], baggage |-> bags, risk_flags |-> flags,
     signals |-> [on_time_proxy |-> ontime],
     provider |-> [provider_name |-> pname, trust_score |-> trust, notes |-> notes],
     score |-> None, score_breakdown |-> None, explanation |-> None]

-----------------------------------------------------------------------------
(* ItineraryDeduplicator (dedupe.py) *)

leg_sig(leg) ==
    leg.airline_code \o leg.flight_number \o "_"
    \o StrftimeCompact(leg.departure_time) \o "_"
    \o leg.origin.code \o "_" \o leg.destination.code

_compute_signature(itin) ==
    Join([i \in DOMAIN itin.legs |-> leg_sig(itin.legs[i])], "|")

\* groups[sig].append(itin) on a dict that keeps insertion order: a sequence
\* of groups, each [sig, itins], itins a sequence of references
AddToGroups(groups, os, ref) ==
    LET sig == _compute_signature(os[ref]) IN
    IF \E g \in DOMAIN groups : groups[g].sig = sig
    THEN [g \in DOMAIN groups |->
            IF groups[g].sig = sig
            THEN [groups[g] EXCEPT !.itins = Append(@, ref)]
            ELSE groups[g]]
    ELSE Append(groups, [sig |-> sig, itins |-> <<ref>>])

RECURSIVE GroupPrefix(_, _, _)
GroupPrefix(os, refs, n) ==
    IF n = 0 THEN <<>>
    ELSE AddToGroups(GroupPrefix(os, refs, n - 1), os, refs[n])

_group_by_signature(os, refs) == GroupPrefix(os, refs, Len(refs))

\* a plausible slip: the trust score not negated in the sort key
SortDuplicatesTrustAscending(os, duplicates) ==
    LET p == sorted([i \in DOMAIN duplicates |->
                        <<os[duplicates[i]].price.total_usd,
                          os[duplicates[i]].provider.trust_score>>])
    IN  [i \in DOMAIN duplicates |-> duplicates[p[i]]]

\* sorted(duplicates, key=lambda x: (x.price.total_usd, -x.provider.trust_score))
SortDuplicates(os, duplicates) ==
    LET p == sorted([i \in DOMAIN duplicates |->
                        <<os[duplicates[i]].price.total_usd,
                          -os[duplicates[i]].provider.trust_score>>])
    IN  [i \in DOMAIN duplicates |-> duplicates[p[i]]]

RECURSIVE OtherProviders(_, _, _)
\* [d.provider.provider_name for d in duplicates
\*      if d.itinerary_id != best.itinerary_id]
OtherProviders(os, duplicates, best) ==
    IF duplicates = <<>> THEN <<>>
    ELSE (IF os[Head(duplicates)].itinerary_id # os[best].itinerary_id
          THEN <<os[Head(duplicates)].provider.provider_name>>
          ELSE <<>>)
         \o OtherProviders(os, Tail(duplicates), best)

AlsoAvailableNote(names) == "Also available via: " \o Join(names, ", ")

\* _select_best returns the winner and appends to its notes in place:
\* [best |-> reference, objs |-> the objects afterwards]
_select_best(os, duplicates) ==
    LET best == SortDuplicates(os, duplicates)[1]
        other_providers == OtherProviders(os, duplicates, best)
        note == AlsoAvailableNote(other_providers)
    IN  IF Len(duplicates) > 1 /\ other_providers # <<>>
           /\ note \notin Range(os[best].provider.notes)
        THEN [best |-> best,
              objs |-> [os EXCEPT ![best].provider.notes = Append(@, note)]]
        ELSE [best |-> best, objs |-> os]

RECURSIVE DedupeGroups(_, _, _)
\* the loop over groups.items(): [out |-> deduplicated, objs |-> objects]
DedupeGroups(os, groups, n) ==
    IF n = 0 THEN [out |-> <<>>, objs |-> os]
    ELSE LET prev == DedupeGroups(os, groups, n - 1)
             itins == groups[n].itins
         IN  IF Len(itins) = 1
             THEN [out |-> Append(prev.out, itins[1]), objs |-> prev.objs]
             ELSE LET sel == _select_best(prev.objs, itins)
                  IN  [out |-> Append(prev.out, sel.best), objs |-> sel.objs]

\* a plausible slip: the early return taken for lists of up to two
DeduplicateReturnsPairs(os, refs) ==
    IF Len(refs) <= 2 THEN [out |-> refs, objs |-> os]
    ELSE LET groups == _group_by_signature(os, refs)
         IN  DedupeGroups(os, groups, Len(groups))

\* deduplicate(itineraries): the list is the sequence refs of references into
\* os; the result is the returned list and the objects as the call leaves them
deduplicate(os, refs) ==
    IF Len(refs) <= 1 THEN [out |-> refs, objs |-> os]
    ELSE LET groups == _group_by_signature(os, refs)
         IN  DedupeGroups(os, groups, Len(groups))

-----------------------------------------------------------------------------
(* The deduplicator harness: a list of candidates, deduplicated, and then   *)
(* deduplicated again (the same list, or the list the last call returned).  *)

\* longest candidate list handed to deduplicate
MaxDedupe == 3
\* most invocations of deduplicate in a run
MaxCalls == 2

\* 08:00, 11:30 on the base day
Dep0800 == 8 * 3600
Arr1130 == 11 * 3600 + 30 * 60

DirectLegs(day) ==
    <<MkLeg("JFK", "LAX", day * SecondsPerDay + Dep0800,
            day * SecondsPerDay + Arr1130, "AA", "AA123")>>

ProviderNames == {"Amadeus", "Kiwi"}

\* provider and itinerary id of a candidate; itinerary_id is a string that a
\* provider (or the fallback data file) supplies, and nothing makes it unique
Sources ==
    {<<"Amadeus", "itin_1">>, <<"Kiwi", "itin_2">>, <<"Kiwi", "itin_1">>}

DedupeCandidate(day, cents, trust, src) ==
    MkItinerary(src[2], DirectLegs(day), <<>>, 0, 210, TRUE, cents, <<>>, <<>>,
                None, src[1], trust, <<>>)

DedupeCandidates ==
    {DedupeCandidate(0, c, t, s) : c \in {10000, 12000}, t \in {80, 100},
                                   s \in Sources}
    \cup {DedupeCandidate(1, 10000, 100, <<"Amadeus", "itin_1">>)}

AllRefs(os) == [i \in DOMAIN os |-> i]

DedupeInit ==
    /\ objs \in UNION {[1..n -> DedupeCandidates] : n \in 0..MaxDedupe}
    /\ dIn = <<>>
    /\ dOut = <<>>
    /\ dCalls = 0

\* deduplicate(candidates)
Deduplicate ==
    /\ dCalls = 0
    /\ LET r == deduplicate(objs, AllRefs(objs))
       IN  /\ objs' = r.objs
           /\ dOut' = r.out
    /\ dIn' = AllRefs(objs)
    /\ dCalls' = 1

\* deduplicate(candidates) once more, on the same list object
DeduplicateSameInput ==
    /\ dCalls >= 1
    /\ dCalls < MaxCalls
    /\ LET r == deduplicate(objs, AllRefs(objs))
       IN  /\ objs' = r.objs
           /\ dOut' = r.out
    /\ dIn' = AllRefs(objs)
    /\ dCalls' = dCalls + 1

\* deduplicate(result) on the list the last call returned
DeduplicatePreviousResult ==
    /\ dCalls >= 1
    /\ dCalls < MaxCalls
    /\ LET r == deduplicate(objs, dOut)
       IN  /\ objs' = r.objs
           /\ dOut' = r.out
    /\ dIn' = dOut
    /\ dCalls' = dCalls + 1

-----------------------------------------------------------------------------
(* ItineraryNormalizer (normalize.py) *)

\* a plausible slip: a layover of exactly 90 minutes counted as tight
LayoverRisksTightAt90(l) ==
    (IF l.duration_minutes <= 90 THEN <<"tight_connection">>
     ELSE IF 360 <= l.duration_minutes /\ l.duration_minutes < 720
          THEN <<"long_layover">>
     ELSE <<>>)
    \o (IF l.overnight \/ l.duration_minutes >= 720
        THEN <<"overnight_layover">> ELSE <<>>)
    \o (IF l.airport_change THEN <<"airport_change">> ELSE <<>>)

\* the flags one layover appends to risks
LayoverRisks(l) ==
    (IF l.duration_minutes < 90 THEN <<"tight_connection">>
     ELSE IF 360 <= l.duration_minutes /\ l.duration_minutes < 720
          THEN <<"long_layover">>
     ELSE <<>>)
    \o (IF l.overnight \/ l.duration_minutes >= 720
        THEN <<"overnight_layover">> ELSE <<>>)
    \o (IF l.airport_change THEN <<"airport_change">> ELSE <<>>)

RECURSIVE AllLayoverRisks(_)
AllLayoverRisks(layovers) ==
    IF layovers = <<>> THEN <<>>
    ELSE LayoverRisks(Head(layovers)) \o AllLayoverRisks(Tail(layovers))

\* hour >= 22 or hour < 5
IsRedEyeHour(hour) == hour >= 22 \/ hour < 5

\* the list risks of _detect_risks before duplicates are removed
DetectedRisks(itin) ==
    AllLayoverRisks(itin.layovers)
    \o (IF \E i \in DOMAIN itin.legs : IsRedEyeHour(HourOf(itin.legs[i].departure_time))
        THEN <<"red_eye">> ELSE <<>>)

\* list(set(risks)): the members of the set, in an order the hash seed decides
Orderings(S) ==
    {s \in [1..Cardinality(S) -> S] :
        \A i, j \in 1..Cardinality(S) : i # j => s[i] # s[j]}

_detect_risks(itin) == Orderings(Range(DetectedRisks(itin)))

\* a plausible slip: the duration taken to the first leg's arrival
TotalMinutesFirstLeg(legs) ==
    TruncDiv(legs[1].arrival_time - legs[1].departure_time, 60)

\* int((last_arrival - first_departure).total_seconds() / 60)
TotalMinutes(legs) ==
    TruncDiv(legs[Len(legs)].arrival_time - legs[1].departure_time, 60)

\* the derived fields that normalize assigns before it detects the risks
DerivedFields(itin) ==
    LET a == [itin EXCEPT !.num_stops = Len(itin.legs) - 1]
        b == [a EXCEPT !.is_direct = (a.num_stops = 0)]
    IN  IF b.legs # <<>>
        THEN [b EXCEPT !.total_duration_minutes = TotalMinutes(b.legs)]
        ELSE b

\* a plausible slip: the detected flags appended to the supplied ones
NormalizeExtendsSuppliedFlags(itin) ==
    LET d == DerivedFields(itin)
    IN  {[d EXCEPT !.risk_flags = itin.risk_flags \o f] : f \in _detect_risks(d)}

\* normalize(itinerary): every value the call can leave in the object (and
\* return), one for each order of the risk-flag list
normalize(itin) ==
    LET d == DerivedFields(itin)
    IN  {[d EXCEPT !.risk_flags = f] : f \in _detect_risks(d)}

-----------------------------------------------------------------------------
(* The normalizer harness: one provider-supplied candidate, normalized.     *)

\* most legs of a candidate handed to normalize
NormMaxLegs == 2

\* first departures: 08:00:00, 08:00:30, 22:00:00, 04:59:59, 05:00:00
FirstDepartures ==
    {Dep0800, Dep0800 + 30, 22 * 3600, 5 * 3600 - 1, 5 * 3600}
\* last arrivals: 11:30:00, 11:30:29, and 01:00:00 on the next day
LastArrivals == {Arr1130, Arr1130 + 29, SecondsPerDay + 3600}
\* departures of the later legs: 12:00:00, 23:00:00
LaterDepartures == {12 * 3600, 23 * 3600}

\* n legs JFK -> BOS -> ... -> LAX
NormLegs(n, dep, later, arr) ==
    [k \in 1..n |->
        MkLeg(IF k = 1 THEN "JFK" ELSE "BOS", IF k = n THEN "LAX" ELSE "BOS",
              IF k = 1 THEN dep ELSE later, IF k = n THEN arr ELSE 10 * 3600,
              "AA", "AA" \o ToString(k))]

NormLegLists ==
    UNION {{NormLegs(n, dep, later, arr) :
                dep \in FirstDepartures, arr \in LastArrivals,
                later \in (IF n = 1 THEN {12 * 3600} ELSE LaterDepartures)} :
           n \in 1..NormMaxLegs}

NormLayovers ==
    {MkLayover(d, o, c) : d \in {89, 90, 359, 360, 719, 720},
                          o \in BOOLEAN, c \in BOOLEAN}

\* second layovers: a tight one, and a long one with an airport change
SecondLayovers == {MkLayover(89, FALSE, FALSE), MkLayover(360, FALSE, TRUE)}

\* no layover, one layover, the same layover twice, or two different ones
NormLayoverLists ==
    {<<>>} \cup {<<l>> : l \in NormLayovers} \cup {<<l, l>> : l \in NormLayovers}
    \cup {<<l, m>> : l \in NormLayovers, m \in SecondLayovers}

\* risk flags as a provider may supply them
SuppliedFlags == {<<>>, <<"self_transfer">>, <<"red_eye", "red_eye">>}

\* the provider's own derived fields are wrong: 3 stops, 1 minute
NormCandidates ==
    {MkItinerary("itin_1", legs, lays, 3, 1, direct, 10000, <<>>, flags,
                 None, "Amadeus", 100, <<>>) :
        legs \in NormLegLists, lays \in NormLayoverLists,
        direct \in BOOLEAN, flags \in SuppliedFlags}

NormInit ==
    /\ nIn \in NormCandidates
    /\ nObj = nIn
    /\ nOut = None
    /\ npc = "init"

\* candidate2 = normalize(candidate): the object is changed in place and
\* returned
Normalize ==
    /\ npc = "init"
    /\ \E r \in normalize(nObj) :
        /\ nObj' = r
        /\ nOut' = Some(r)
    /\ npc' = "done"
    /\ UNCHANGED nIn

-----------------------------------------------------------------------------
(* ItineraryRanker (scoring.py).  Scores are in hundredths and computed in  *)
(* exact arithmetic: the error of binary floating point is not modelled.    *)

\* round(n / d) for n >= 0, d > 0, ties to even as Python's round
RoundDiv(n, d) ==
    LET q == n \div d
        r == n % d
    IN  IF 2 * r < d THEN q
        ELSE IF 2 * r > d THEN q + 1
        ELSE IF q % 2 = 0 THEN q ELSE q + 1

\* DEFAULT_WEIGHTS, in hundredths
DEFAULT_WEIGHTS ==
    [cheap |-> [price |-> 50, duration |-> 15, stops |-> 10, layover |-> 5,
                baggage |-> 5, risk |-> 10, reliability |-> 5],
     fast |-> [price |-> 15, duration |-> 45, stops |-> 20, layover |-> 10,
               baggage |-> 2, risk |-> 5, reliability |-> 3],
     comfort |-> [price |-> 20, duration |-> 20, stops |-> 15, layover |-> 15,
                  baggage |-> 10, risk |-> 15, reliability |-> 5],
     balanced |-> [price |-> 25, duration |-> 20, stops |-> 15, layover |-> 10,
                   baggage |-> 10, risk |-> 15, reliability |-> 5]]

\* a plausible slip: the first profile used as the fallback
GetWeightsFallsBackToCheap(search_intent) ==
    IF search_intent = None THEN DEFAULT_WEIGHTS["cheap"]
    ELSE IF search_intent[1].priority \in DOMAIN DEFAULT_WEIGHTS
         THEN DEFAULT_WEIGHTS[search_intent[1].priority]
         ELSE DEFAULT_WEIGHTS["cheap"]

\* _get_weights: search_intent is an Optional intent; priority.lower() of the
\* priorities of the model is the priority itself
_get_weights(search_intent) ==
    IF search_intent = None THEN DEFAULT_WEIGHTS["balanced"]
    ELSE IF search_intent[1].priority \in DOMAIN DEFAULT_WEIGHTS
         THEN DEFAULT_WEIGHTS[search_intent[1].priority]
         ELSE DEFAULT_WEIGHTS["balanced"]

SeqMin(f) == CHOOSE m \in Range(f) : \A x \in Range(f) : m <= x
SeqMax(f) == CHOOSE m \in Range(f) : \A x \in Range(f) : m >= x

RECURSIVE SeqSum(_)
SeqSum(f) == IF f = <<>> THEN 0 ELSE Head(f) + SeqSum(Tail(f))

\* a plausible slip: the normalization not inverted
MinMaxNotInverted(v, all) ==
    LET lo == SeqMin(all)
        hi == SeqMax(all)
    IN  IF hi = lo THEN 10000 ELSE RoundDiv(10000 * (v - lo), hi - lo)

\* round(100 * (1 - (v - lo) / (hi - lo)), 2), 100.0 when hi = lo
InverseMinMax(v, all) ==
    LET lo == SeqMin(all)
        hi == SeqMax(all)
    IN  IF hi = lo THEN 10000 ELSE RoundDiv(10000 * (hi - v), hi - lo)

_score_price(itin, all) ==
    InverseMinMax(itin.price.total_usd,
                  [i \in DOMAIN all |-> all[i].price.total_usd])

_score_duration(itin, all) ==
    InverseMinMax(itin.total_duration_minutes,
                  [i \in DOMAIN all |-> all[i].total_duration_minutes])

_score_stops(itin) ==
    IF itin.num_stops = 0 THEN 10000
    ELSE IF itin.num_stops = 1 THEN 7000
    ELSE IF itin.num_stops = 2 THEN 4000
    ELSE 1000

\* a plausible slip: a layover of exactly 180 minutes left out of the ideal
\* bucket
LayoverPointsIdealBelow180(l) ==
    LET d == l.duration_minutes
        base == IF 90 <= d /\ d < 180 THEN 100
                ELSE IF 60 <= d /\ d < 90 THEN 80
                ELSE IF d < 60 THEN 30
                ELSE IF 180 < d /\ d <= 360 THEN 70
                ELSE 40
        a == IF l.overnight THEN base * 5 ELSE base * 10
        b == IF l.airport_change THEN a * 6 ELSE a * 10
    IN  b * 10

\* the score of one layover, in thousandths (the penalties are * 0.5, * 0.6)
LayoverPoints(l) ==
    LET d == l.duration_minutes
        base == IF 90 <= d /\ d <= 180 THEN 100
                ELSE IF 60 <= d /\ d < 90 THEN 80
                ELSE IF d < 60 THEN 30
                ELSE IF 180 < d /\ d <= 360 THEN 70
                ELSE 40
        a == IF l.overnight THEN base * 5 ELSE base * 10
        b == IF l.airport_change THEN a * 6 ELSE a * 10
    IN  b * 10

_score_layovers(itin) ==
    IF itin.layovers = <<>> THEN 10000
    ELSE RoundDiv(SeqSum([i \in DOMAIN itin.layovers |->
                            LayoverPoints(itin.layovers[i])]),
                  10 * Len(itin.layovers))

\* the loop adds 25 for every included carry_on entry and for every included
\* checked entry
_score_baggage(itin) ==
    LET adds == [i \in DOMAIN itin.baggage |->
                    IF itin.baggage[i].included
                       /\ itin.baggage[i].type \in {"carry_on", "checked"}
                    THEN 25 ELSE 0]
        score == 50 + SeqSum(adds)
    IN  100 * (IF score < 100 THEN score ELSE 100)

RiskPenalty(flag) ==
    CASE flag = "self_transfer" -> 40
      [] flag = "tight_connection" -> 15
      [] flag = "overnight_layover" -> 10
      [] flag = "separate_tickets" -> 35
      [] flag = "airport_change" -> 20
      [] flag = "long_layover" -> 5
      [] flag = "red_eye" -> 8
      [] OTHER -> 5

\* a plausible slip: max(base_score, 0) left out
ScoreRiskUnfloored(itin) ==
    100 * (100 - SeqSum([i \in DOMAIN itin.risk_flags |->
                            RiskPenalty(itin.risk_flags[i])]))

_score_risk(itin) ==
    LET base == 100 - SeqSum([i \in DOMAIN itin.risk_flags |->
                                RiskPenalty(itin.risk_flags[i])])
    IN  100 * (IF base > 0 THEN base ELSE 0)

\* 50 + trust * 25 + on_time * 25 (when on_time is truthy), at most 100
_score_reliability(itin) ==
    LET score == 5000 + 25 * itin.provider.trust_score
                 + (IF Truthy(itin.signals.on_time_proxy)
                    THEN 25 * itin.signals.on_time_proxy[1] ELSE 0)
    IN  IF score < 10000 THEN score ELSE 10000

\* _calculate_score: the itinerary with score and score_breakdown assigned
_calculate_score(itin, all, weights) ==
    LET b == [price_score |-> _score_price(itin, all),
              duration_score |-> _score_duration(itin, all),
              stops_score |-> _score_stops(itin),
              layover_score |-> _score_layovers(itin),
              baggage_score |-> _score_baggage(itin),
              risk_score |-> _score_risk(itin),
              reliability_score |-> _score_reliability(itin),
              weights |-> weights]
        total == weights.price * b.price_score
                 + weights.duration * b.duration_score
                 + weights.stops * b.stops_score
                 + weights.layover * b.layover_score
                 + weights.baggage * b.baggage_score
                 + weights.risk * b.risk_score
                 + weights.reliability * b.reliability_score
    IN  [itin EXCEPT !.score = Some(RoundDiv(total, 100)),
                     !.score_breakdown = Some(b)]

\* f"{x:.1f}" of minutes / 60
HoursText(minutes) ==
    LET t == RoundDiv(minutes, 6)
    IN  ToString(t \div 10) \o "." \o ToString(t % 10)

\* a plausible slip: the last itinerary of minimal key
LastMinIndex(keys) ==
    CHOOSE i \in DOMAIN keys :
        /\ \A j \in DOMAIN keys : keys[i] <= keys[j]
        /\ \A j \in DOMAIN keys : j > i => keys[j] > keys[i]

\* min(all_ranked, key=...): the first itinerary of minimal key
FirstMinIndex(keys) ==
    CHOOSE i \in DOMAIN keys :
        /\ \A j \in DOMAIN keys : keys[i] <= keys[j]
        /\ \A j \in DOMAIN keys : j < i => keys[j] > keys[i]

FirstMaxIndex(keys) == FirstMinIndex([i \in DOMAIN keys |-> -keys[i]])

LayoverPart(l) ==
    HoursText(l.duration_minutes) \o "h layover ("
    \o (IF 90 <= l.duration_minutes /\ l.duration_minutes <= 180
        THEN "comfortable"
        ELSE IF l.duration_minutes < 90 THEN "tight" ELSE "long")
    \o ")"

HasIncluded(itin, type) ==
    \E i \in DOMAIN itin.baggage :
        itin.baggage[i].included /\ itin.baggage[i].type = type

CriticalRisks(itin) ==
    SelectSeq(itin.risk_flags,
              LAMBDA f : f \in {"self_transfer", "separate_tickets"})

\* the list parts of _generate_explanation
ExplanationParts(itin, all_ranked) ==
    LET cheapest == all_ranked[FirstMinIndex(
                        [i \in DOMAIN all_ranked |-> all_ranked[i].price.total_usd])]
    IN  (IF itin.itinerary_id = cheapest.itinerary_id
         THEN <<"Cheapest option">>
         ELSE <<"$" \o ToString(RoundDiv(itin.price.total_usd
                                         - cheapest.price.total_usd, 100))
                \o " more than cheapest">>)
        \o (IF itin.is_direct THEN <<"direct flight">>
            ELSE <<ToString(itin.num_stops) \o " stop(s)">>)
        \o [i \in DOMAIN itin.layovers |-> LayoverPart(itin.layovers[i])]
        \o (IF HasIncluded(itin, "carry_on") /\ HasIncluded(itin, "checked")
            THEN <<"bags included">>
            ELSE IF HasIncluded(itin, "carry_on") THEN <<"carry-on included">>
            ELSE <<>>)
        \o (IF CriticalRisks(itin) # <<>>
            THEN <<"! " \o (IF CriticalRisks(itin)[1] = "self_transfer"
                            THEN "self transfer" ELSE "separate tickets")>>
            ELSE <<>>)

\* ". ".join(parts).capitalize() + ".": the parts of the model are in lower
\* case but for the first letter of the first one, so capitalize() keeps them
_generate_explanation(itin, all_ranked) ==
    IF itin.score_breakdown = None THEN "No scoring data available"
    ELSE Join(ExplanationParts(itin, all_ranked), ". ") \o "."

\* a plausible slip: sorted ascending and then reversed, which reverses ties
SortByScoreThenReverse(scored) ==
    LET p == sorted([i \in DOMAIN scored |->
                        <<IF Truthy(scored[i].score) THEN scored[i].score[1] ELSE 0>>])
        n == Len(scored)
    IN  [i \in DOMAIN scored |-> scored[p[n + 1 - i]]]

\* a plausible slip: reverse=True left out
SortByScoreAscending(scored) ==
    LET p == sorted([i \in DOMAIN scored |->
                        <<IF Truthy(scored[i].score) THEN scored[i].score[1] ELSE 0>>])
    IN  [i \in DOMAIN scored |-> scored[p[i]]]

\* sorted(itineraries, key=lambda x: x.score or 0, reverse=True): stable
SortByScore(scored) ==
    LET p == sorted([i \in DOMAIN scored |->
                        <<-(IF Truthy(scored[i].score) THEN scored[i].score[1] ELSE 0)>>])
    IN  [i \in DOMAIN scored |-> scored[p[i]]]

\* rank_itineraries(itineraries) with the weights of the ranker
rank_itineraries(itineraries, weights) ==
    IF itineraries = <<>> THEN <<>>
    ELSE LET scored == [i \in DOMAIN itineraries |->
                            _calculate_score(itineraries[i], itineraries, weights)]
             ranked == SortByScore(scored)
         IN  [i \in DOMAIN ranked |->
                [ranked[i] EXCEPT !.explanation =
                    Some(_generate_explanation(ranked[i], ranked))]]

\* get_category_winners(itineraries): the dict it returns, as a function from
\* category names to itineraries (the empty function for an empty batch)
get_category_winners(itineraries) ==
    IF itineraries = <<>> THEN <<>>
    ELSE LET key(f(_)) == [i \in DOMAIN itineraries |-> f(itineraries[i])]
             total_usd(x) == x.price.total_usd
             minutes(x) == x.total_duration_minutes
             score_or_0(x) == IF Truthy(x.score) THEN x.score[1] ELSE 0
             stops(x) == x.num_stops
         IN  [cheapest |-> itineraries[FirstMinIndex(key(total_usd))],
              fastest |-> itineraries[FirstMinIndex(key(minutes))],
              best_overall |-> itineraries[FirstMaxIndex(key(score_or_0))],
              most_direct |-> itineraries[FirstMinIndex(key(stops))]]

-----------------------------------------------------------------------------
(* The ranker harness: a ranker constructed for an intent (or for none)     *)
(* ranks one batch; the category winners are taken of the batch.            *)

\* longest batch handed to rank_itineraries
MaxRank == 3

\* direct JFK -> LAX, 08:00 - 13:00 (5 h)
RankCandidateDirect(id, cents, bags) ==
    MkItinerary(id, <<MkLeg("JFK", "LAX", Dep0800, 13 * 3600, "AA", "AA123")>>,
                <<>>, 0, 300, TRUE, cents, bags, <<>>, Some(90), "Amadeus", 80, <<>>)

\* JFK -> BOS -> LAX, 08:00 - 16:00 (8 h), one layover of two hours
RankCandidateOneStop(id, cents, bags) ==
    MkItinerary(id, <<MkLeg("JFK", "BOS", Dep0800, 10 * 3600, "AA", "AA10"),
                      MkLeg("BOS", "LAX", 12 * 3600, 16 * 3600, "AA", "AA20")>>,
                <<MkLayover(120, FALSE, FALSE)>>, 1, 480, FALSE, cents, bags,
                <<>>, Some(90), "Amadeus", 80, <<>>)

\* the candidates of a batch, each as a function of the id it is given
RankVariants ==
    {"direct_400", "onestop_250", "direct_400_two_carry_ons",
     "direct_300_both_bags", "onestop_300_checked_not_included",
     "direct_250_carry_on"}

RankCandidate(v, id) ==
    CASE v = "direct_400" -> RankCandidateDirect(id, 40000, <<>>)
      [] v = "onestop_250" -> RankCandidateOneStop(id, 25000, <<>>)
      [] v = "direct_400_two_carry_ons" ->
            RankCandidateDirect(id, 40000, <<MkBaggage("carry_on", TRUE),
                                             MkBaggage("carry_on", TRUE)>>)
      [] v = "direct_300_both_bags" ->
            RankCandidateDirect(id, 30000, <<MkBaggage("carry_on", TRUE),
                                             MkBaggage("checked", TRUE)>>)
      [] v = "onestop_300_checked_not_included" ->
            RankCandidateOneStop(id, 30000, <<MkBaggage("checked", FALSE)>>)
      [] v = "direct_250_carry_on" ->
            RankCandidateDirect(id, 25000, <<MkBaggage("carry_on", TRUE)>>)

\* layovers at the edges of the duration buckets, with either flag
ProbeLayovers ==
    {MkLayover(d, o, c) : d \in {59, 60, 89, 90, 180, 181, 360, 361},
                          o \in BOOLEAN, c \in BOOLEAN}

\* a second layover: a comfortable one, or a short overnight airport change
ProbeSecondLayovers == {MkLayover(120, FALSE, FALSE), MkLayover(45, TRUE, TRUE)}

ProbeLayoverLists ==
    {<<l>> : l \in ProbeLayovers}
    \cup {<<l, m>> : l \in ProbeLayovers, m \in ProbeSecondLayovers}

\* JFK -> BOS (-> ORD) -> LAX from 08:00 in legs of two hours, with the
\* given layovers between them
RankCandidateConnecting(id, lays) ==
    LET n == Len(lays) + 1
        dep(k) == Dep0800 + (k - 1) * 2 * 3600
                  + 60 * SeqSum([j \in 1..(k - 1) |-> lays[j].duration_minutes])
        stop(k) == IF k = 1 THEN "BOS" ELSE "ORD"
        legs == [k \in 1..n |->
                    MkLeg(IF k = 1 THEN "JFK" ELSE stop(k - 1),
                          IF k = n THEN "LAX" ELSE stop(k),
                          dep(k), dep(k) + 2 * 3600, "AA", "AA" \o ToString(k))]
    IN  MkItinerary(id, legs, lays, n - 1,
                    (legs[n].arrival_time - legs[1].departure_time) \div 60,
                    FALSE, 30000, <<>>, <<>>, Some(90), "Amadeus", 80, <<>>)

\* baggage lists: a checked bag alone, three included bags, a personal item
ProbeBaggage ==
    {<<MkBaggage("checked", TRUE)>>,
     <<MkBaggage("carry_on", TRUE), MkBaggage("checked", TRUE),
       MkBaggage("checked", TRUE)>>,
     <<MkBaggage("personal_item", TRUE)>>}

\* risk flags as a caller of rank_itineraries may supply them
ProbeRiskFlags ==
    {<<"red_eye">>, <<"separate_tickets">>,
     <<"self_transfer", "separate_tickets", "airport_change", "tight_connection">>}

\* single candidates that reach the branches of the component scores
RankProbes ==
    {RankCandidateConnecting("itin_1", lays) : lays \in ProbeLayoverLists}
    \cup {RankCandidateDirect("itin_1", 30000, bags) : bags \in ProbeBaggage}
    \cup {[RankCandidateDirect("itin_1", 30000, <<>>) EXCEPT !.risk_flags = f] :
              f \in ProbeRiskFlags}

\* batches of normalized candidates with the ids itin_1, itin_2, ..., and the
\* batches of one probe
RankBatches ==
    UNION {{[k \in 1..n |-> RankCandidate(vs[k], "itin_" \o ToString(k))] :
                vs \in [1..n -> RankVariants]} : n \in 0..MaxRank}
    \cup {<<x>> : x \in RankProbes}

\* ItineraryRanker() and ItineraryRanker(intent) for the four known priorities
\* and an unrecognized one
RankIntents ==
    {None} \cup {Some([DefaultIntent EXCEPT !.priority = p]) :
                    p \in {"cheap", "fast", "comfort", "balanced", "luxury"}}

RankInit ==
    /\ rIntent \in RankIntents
    /\ rIn \in RankBatches
    /\ rWeights = None
    /\ rOut = None
    /\ rWin = None

\* ranker = ItineraryRanker(intent): self.weights = self._get_weights()
ConstructRanker ==
    /\ rWeights = None
    /\ rWeights' = Some(_get_weights(rIntent))
    /\ UNCHANGED <<rIntent, rIn, rOut, rWin>>

\* ranked = ranker.rank_itineraries(batch)
Rank ==
    /\ rWeights # None
    /\ rOut = None
    /\ rOut' = Some(rank_itineraries(rIn, rWeights[1]))
    /\ UNCHANGED <<rIntent, rIn, rWeights, rWin>>

\* get_category_winners of the batch (of the ranked list once there is one):
\* the batch as the call leaves it, and the winners
CategoryWinners ==
    /\ rWin = None
    /\ LET b == IF rOut # None THEN rOut[1] ELSE rIn
       IN  rWin' = Some([batch |-> b, winners |-> get_category_winners(b)])
    /\ UNCHANGED <<rIntent, rIn, rWeights, rOut>>

-----------------------------------------------------------------------------
(* CacheManager.get_search_results / set_search_results (cache.py) over a   *)
(* redis keyspace: a function from keys to [data, ttl].                     *)

\* json.dumps([itin.model_dump(mode='json') for itin in itineraries])
Serialize(itineraries) == [valid |-> TRUE, items |-> itineraries]

\* a value under a key that is not the JSON of a list of itineraries
ForeignData == [valid |-> FALSE, items |-> <<>>]

InRange(o, lo, hi) == o = None \/ (lo <= o[1] /\ o[1] <= hi)

\* Itinerary(**item): the field constraints of schema.py
ValidItinerary(it) ==
    /\ Len(it.legs) >= 1
    /\ 0 <= it.provider.trust_score /\ it.provider.trust_score <= 100
    /\ InRange(it.signals.on_time_proxy, 0, 100)
    /\ InRange(it.score, 0, 10000)
    /\ it.score_breakdown # None =>
        \A f \in {"price_score", "duration_score", "stops_score", "layover_score",
                  "baggage_score", "risk_score", "reliability_score"} :
            0 <= it.score_breakdown[1][f] /\ it.score_breakdown[1][f] <= 10000

\* json.loads(cached_data) and [Itinerary(**item) for item in data_list]:
\* the list, or raises
Deserializes(data) ==
    data.valid /\ \A i \in DOMAIN data.items : ValidItinerary(data.items[i])

\* a plausible slip: no try/except around the redis read
GetSearchResultsUncaught(i, en, client, up, keyspace) ==
    IF ~en \/ ~client THEN [raised |-> FALSE, value |-> None, log |-> "disabled"]
    ELSE LET cache_key == _generate_cache_key(i) IN
         IF ~up THEN [raised |-> TRUE, value |-> None, log |-> "error"]
         ELSE IF cache_key \notin DOMAIN keyspace
              THEN [raised |-> FALSE, value |-> None, log |-> "miss"]
         ELSE IF ~Deserializes(keyspace[cache_key].data)
              THEN [raised |-> TRUE, value |-> None, log |-> "error"]
         ELSE [raised |-> FALSE, value |-> Some(keyspace[cache_key].data.items),
               log |-> "hit"]

\* get_search_results(intent): [raised, value, log]; value is the Optional
\* list returned, log is what the call prints
get_search_results(i, en, client, up, keyspace) ==
    IF ~en \/ ~client THEN [raised |-> FALSE, value |-> None, log |-> "disabled"]
    ELSE LET cache_key == _generate_cache_key(i) IN
         IF ~up THEN [raised |-> FALSE, value |-> None, log |-> "error"]
         ELSE IF cache_key \notin DOMAIN keyspace
              THEN [raised |-> FALSE, value |-> None, log |-> "miss"]
         ELSE IF ~Deserializes(keyspace[cache_key].data)
              THEN [raised |-> FALSE, value |-> None, log |-> "error"]
         ELSE [raised |-> FALSE, value |-> Some(keyspace[cache_key].data.items),
               log |-> "hit"]

\* a plausible slip: the one-hour tier's time-to-live used for search results
SetSearchResultsHourTtl(i, itineraries, ttl_seconds, en, client, up, keyspace) ==
    IF ~en \/ ~client
    THEN [raised |-> FALSE, keyspace |-> keyspace, log |-> "disabled", call |-> None]
    ELSE IF ~up
    THEN [raised |-> FALSE, keyspace |-> keyspace, log |-> "error", call |-> None]
    ELSE LET c == [key |-> _generate_cache_key(i), ttl |-> 3600,
                   data |-> Serialize(itineraries)]
         IN  [raised |-> FALSE,
              keyspace |-> (c.key :> [data |-> c.data, ttl |-> c.ttl]) @@ keyspace,
              log |-> "stored", call |-> Some(c)]

\* a plausible slip: the entry written only when the key is absent (SET NX)
SetSearchResultsIfAbsent(i, itineraries, ttl_seconds, en, client, up, keyspace) ==
    IF ~en \/ ~client
    THEN [raised |-> FALSE, keyspace |-> keyspace, log |-> "disabled", call |-> None]
    ELSE IF ~up
    THEN [raised |-> FALSE, keyspace |-> keyspace, log |-> "error", call |-> None]
    ELSE LET c == [key |-> _generate_cache_key(i), ttl |-> ttl_seconds,
                   data |-> Serialize(itineraries)]
         IN  [raised |-> FALSE,
              keyspace |-> keyspace @@ (c.key :> [data |-> c.data, ttl |-> c.ttl]),
              log |-> "stored", call |-> Some(c)]

\* set_search_results(intent, itineraries, ttl_seconds): [raised, keyspace,
\* log, call]; call is the SETEX that redis executed, if any
set_search_results(i, itineraries, ttl_seconds, en, client, up, keyspace) ==
    IF ~en \/ ~client
    THEN [raised |-> FALSE, keyspace |-> keyspace, log |-> "disabled", call |-> None]
    ELSE IF ~up
    THEN [raised |-> FALSE, keyspace |-> keyspace, log |-> "error", call |-> None]
    ELSE LET c == [key |-> _generate_cache_key(i), ttl |-> ttl_seconds,
                   data |-> Serialize(itineraries)]
         IN  [raised |-> FALSE,
              keyspace |-> (c.key :> [data |-> c.data, ttl |-> c.ttl]) @@ keyspace,
              log |-> "stored", call |-> Some(c)]

-----------------------------------------------------------------------------
(* SearchOrchestrator (orchestrator.py) *)

Passes(itin, i) ==
    /\ itin.legs[1].origin.code \in Range(i.origins)
    /\ itin.legs[Len(itin.legs)].destination.code \in Range(i.destinations)
    /\ ~(i.nonstop_only /\ ~itin.is_direct)
    /\ ~(i.max_stops # None /\ itin.num_stops > i.max_stops[1])
    /\ ~(Truthy(i.max_price_usd) /\ itin.price.total_usd > i.max_price_usd[1])
    /\ ~(Truthy(i.max_duration_hours)
         /\ itin.total_duration_minutes > i.max_duration_hours[1] * 60)
    /\ ~(i.no_red_eyes
         /\ \E k \in DOMAIN itin.legs :
                IsRedEyeHour(HourOf(itin.legs[k].departure_time)))
    /\ ~(i.no_overnight_layovers
         /\ \E k \in DOMAIN itin.layovers : itin.layovers[k].overnight)

_filter_by_intent(itineraries, i) ==
    SelectSeq(itineraries, LAMBDA itin : Passes(itin, i))

\* _fetch_results(intent) on the sample data file: data is None when the file
\* does not exist, else the list of its objects, each Some(itinerary) or None
\* for an object that Itinerary(**itin_data) rejects
_fetch_results(data, i) ==
    IF data = None THEN [raised |-> FALSE, value |-> <<>>]
    ELSE IF \E k \in DOMAIN data[1] : data[1][k] = None
    THEN [raised |-> TRUE, value |-> <<>>]
    ELSE [raised |-> FALSE,
          value |-> _filter_by_intent([k \in DOMAIN data[1] |-> data[1][k][1]], i)]

\* [self.normalizer.normalize(itin) for itin in raw_itineraries]: the lists
\* the comprehension can produce
NormalizedLists(raw) ==
    {n \in [DOMAIN raw -> UNION {normalize(raw[k]) : k \in DOMAIN raw}] :
        \A k \in DOMAIN raw : n[k] \in normalize(raw[k])}

\* self.deduplicator.deduplicate(normalized), as the list of its objects
DeduplicatedList(normalized) ==
    LET r == deduplicate(normalized, AllRefs(normalized))
    IN  [k \in DOMAIN r.out |-> r.objs[r.out[k]]]

-----------------------------------------------------------------------------
(* The service: startup, search requests, and the redis server's own steps  *)

Reqs == {"r1", "r2"}

\* $400 direct JFK -> LAX, 08:00 - 13:00, as Amadeus and as Kiwi supply it
OfferDirect(src, cents) ==
    MkItinerary(src[2],
                <<MkLeg("JFK", "LAX", Dep0800, 13 * 3600, "AA", "AA123")>>,
                <<>>, 0, 300, TRUE, cents, <<MkBaggage("carry_on", TRUE)>>,
                <<>>, Some(90), src[1], 100, <<>>)

\* $250 JFK -> BOS -> LAX, 08:00 - 16:00, one layover of two hours
OfferOneStop ==
    MkItinerary("itin_3",
                <<MkLeg("JFK", "BOS", Dep0800, 10 * 3600, "DL", "DL10"),
                  MkLeg("BOS", "LAX", 12 * 3600, 16 * 3600, "DL", "DL20")>>,
                <<MkLayover(120, FALSE, FALSE)>>, 1, 480, FALSE, 25000,
                <<>>, <<>>, None, "Amadeus", 90, <<>>)

\* $300 direct JFK -> LAX leaving 23:00, supplied with a stop count of 1, not
\* direct, and a self_transfer flag
OfferRedEye ==
    MkItinerary("itin_4",
                <<MkLeg("JFK", "LAX", 23 * 3600, SecondsPerDay + 4 * 3600,
                        "UA", "UA7")>>,
                <<>>, 1, 300, FALSE, 30000, <<>>, <<"self_transfer">>,
                None, "Kiwi", 80, <<>>)

\* $350 JFK -> BOS -> LAX, 06:00 - 23:00, one layover of twelve hours not
\* marked overnight, supplied with the sum of its flight times as duration
OfferLongLayover ==
    MkItinerary("itin_5",
                <<MkLeg("JFK", "BOS", 6 * 3600, 8 * 3600, "B6", "B61"),
                  MkLeg("BOS", "LAX", 20 * 3600, 23 * 3600, "B6", "B62")>>,
                <<MkLayover(720, FALSE, FALSE)>>, 1, 300, FALSE, 35000,
                <<>>, <<>>, None, "Kiwi", 80, <<>>)

\* the sample data file: None when it does not exist, else its objects
DataSets ==
    {None,
     Some(<<Some(OfferDirect(<<"Amadeus", "itin_1">>, 40000)),
            Some(OfferDirect(<<"Kiwi", "itin_2">>, 42000)),
            Some(OfferLongLayover)>>),
     Some(<<Some(OfferOneStop),
            Some(OfferDirect(<<"Kiwi", "itin_2">>, 42000)),
            Some(OfferDirect(<<"Amadeus", "itin_1">>, 40000))>>),
     Some(<<Some(OfferRedEye),
            Some(OfferDirect(<<"Amadeus", "itin_1">>, 40000))>>),
     Some(<<None, Some(OfferDirect(<<"Amadeus", "itin_1">>, 40000))>>)}

\* the intents of the requests
SearchIntents ==
    {DefaultIntent,
     [DefaultIntent EXCEPT !.destinations = <<"BOS">>],
     [DefaultIntent EXCEPT !.max_duration_hours = Some(10), !.no_red_eyes = TRUE,
                           !.no_overnight_layovers = TRUE]}

NoRet == None

\* search() has no await between the return of the cache lookup and the call
\* of the cache store: these steps of one request run without any other
\* request's code running on the event loop
SyncSteps == {"fetch", "normalize", "dedupe", "rank"}
LoopFreeFor(r) == \A q \in Reqs \ {r} : pc[q] \notin SyncSteps
\* the service sees the redis server only at its awaits, so the server's own
\* steps are taken at those points
AtAwait == \A q \in Reqs : pc[q] \notin SyncSteps

SearchInit ==
    /\ dataset \in DataSets
    /\ started = FALSE
    /\ enabled \in BOOLEAN
    /\ redis_client = FALSE
    /\ redisUp \in BOOLEAN
    /\ store = <<>>
    /\ pc = [r \in Reqs |-> "idle"]
    /\ intent = [r \in Reqs |-> DefaultIntent]
    /\ batch = [r \in Reqs |-> <<>>]
    /\ ret = [r \in Reqs |-> NoRet]
    /\ stages = [r \in Reqs |-> <<>>]
    /\ lookup = [r \in Reqs |-> None]
    /\ wrote = [r \in Reqs |-> None]

\* startup_event: cache_manager.connect()
Startup ==
    /\ ~started
    /\ started' = TRUE
    /\ IF ~enabled THEN UNCHANGED <<enabled, redis_client>>
       ELSE IF redisUp THEN redis_client' = TRUE /\ UNCHANGED enabled
       ELSE redis_client' = FALSE /\ enabled' = FALSE
    /\ UNCHANGED <<dataset, redisUp, store, pc, intent, batch, ret, stages,
                   lookup, wrote>>

\* a request arrives: search(intent) is called
Start(r) ==
    /\ started
    /\ pc[r] = "idle"
    /\ LoopFreeFor(r)
    /\ \E i \in SearchIntents : intent' = [intent EXCEPT ![r] = i]
    /\ pc' = [pc EXCEPT ![r] = "lookup"]
    /\ UNCHANGED <<dataset, started, enabled, redis_client, redisUp, store,
                   batch, ret, stages, lookup, wrote>>

\* cached_results = await cache_manager.get_search_results(intent)
\* if cached_results: return cached_results, True
Lookup(r) ==
    /\ pc[r] = "lookup"
    /\ LoopFreeFor(r)
    /\ LET g == get_search_results(intent[r], enabled, redis_client, redisUp, store)
       IN  /\ lookup' = [lookup EXCEPT ![r] = Some(g)]
           /\ IF g.raised
              THEN /\ pc' = [pc EXCEPT ![r] = "failed"]
                   /\ ret' = ret
              ELSE IF g.value # None /\ g.value[1] # <<>>
              THEN /\ pc' = [pc EXCEPT ![r] = "done"]
                   /\ ret' = [ret EXCEPT ![r] =
                                Some([itineraries |-> g.value[1], cache_hit |-> TRUE])]
              ELSE /\ pc' = [pc EXCEPT ![r] = "fetch"]
                   /\ ret' = ret
    /\ stages' = [stages EXCEPT ![r] = Append(@, "cache_lookup")]
    /\ UNCHANGED <<dataset, started, enabled, redis_client, redisUp, store,
                   intent, batch, wrote>>

\* raw_itineraries = await self._fetch_results(intent)
Fetch(r) ==
    /\ pc[r] = "fetch"
    /\ LoopFreeFor(r)
    /\ LET f == _fetch_results(dataset, intent[r])
       IN  /\ batch' = [batch EXCEPT ![r] = f.value]
           /\ pc' = [pc EXCEPT ![r] = IF f.raised THEN "failed" ELSE "normalize"]
    /\ stages' = [stages EXCEPT ![r] = Append(@, "fetch")]
    /\ UNCHANGED <<dataset, started, enabled, redis_client, redisUp, store,
                   intent, ret, lookup, wrote>>

\* normalized = [self.normalizer.normalize(itin) for itin in raw_itineraries]
NormalizeBatch(r) ==
    /\ pc[r] = "normalize"
    /\ LoopFreeFor(r)
    /\ \E n \in NormalizedLists(batch[r]) : batch' = [batch EXCEPT ![r] = n]
    /\ pc' = [pc EXCEPT ![r] = "dedupe"]
    /\ stages' = [stages EXCEPT ![r] = Append(@, "normalize")]
    /\ UNCHANGED <<dataset, started, enabled, redis_client, redisUp, store,
                   intent, ret, lookup, wrote>>

\* deduplicated = self.deduplicator.deduplicate(normalized)
DedupeBatch(r) ==
    /\ pc[r] = "dedupe"
    /\ LoopFreeFor(r)
    /\ batch' = [batch EXCEPT ![r] = DeduplicatedList(batch[r])]
    /\ pc' = [pc EXCEPT ![r] = "rank"]
    /\ stages' = [stages EXCEPT ![r] = Append(@, "deduplicate")]
    /\ UNCHANGED <<dataset, started, enabled, redis_client, redisUp, store,
                   intent, ret, lookup, wrote>>

\* ranker = ItineraryRanker(intent); ranked = ranker.rank_itineraries(deduplicated)
RankBatch(r) ==
    /\ pc[r] = "rank"
    /\ LoopFreeFor(r)
    /\ batch' = [batch EXCEPT ![r] =
                    rank_itineraries(batch[r], _get_weights(Some(intent[r])))]
    /\ pc' = [pc EXCEPT ![r] = "store"]
    /\ stages' = [stages EXCEPT ![r] = Append(@, "rank")]
    /\ UNCHANGED <<dataset, started, enabled, redis_client, redisUp, store,
                   intent, ret, lookup, wrote>>

\* await cache_manager.set_search_results(intent, ranked, ttl_seconds=300)
\* return ranked, False
StoreBatch(r) ==
    /\ pc[r] = "store"
    /\ LoopFreeFor(r)
    /\ LET w == set_search_results(intent[r], batch[r], 300,
                                   enabled, redis_client, redisUp, store)
       IN  /\ store' = w.keyspace
           /\ wrote' = [wrote EXCEPT ![r] = Some([log |-> w.log, call |-> w.call])]
           /\ IF w.raised
              THEN /\ pc' = [pc EXCEPT ![r] = "failed"]
                   /\ ret' = ret
              ELSE /\ pc' = [pc EXCEPT ![r] = "done"]
                   /\ ret' = [ret EXCEPT ![r] =
                                Some([itineraries |-> batch[r], cache_hit |-> FALSE])]
    /\ stages' = [stages EXCEPT ![r] = Append(@, "cache_store")]
    /\ UNCHANGED <<dataset, started, enabled, redis_client, redisUp,
                   intent, batch, lookup>>

\* the response is sent (or the error is), and the next request can come
Respond(r) ==
    /\ pc[r] \in {"done", "failed"}
    /\ LoopFreeFor(r)
    /\ pc' = [pc EXCEPT ![r] = "idle"]
    /\ intent' = [intent EXCEPT ![r] = DefaultIntent]
    /\ batch' = [batch EXCEPT ![r] = <<>>]
    /\ ret' = [ret EXCEPT ![r] = NoRet]
    /\ stages' = [stages EXCEPT ![r] = <<>>]
    /\ lookup' = [lookup EXCEPT ![r] = None]
    /\ wrote' = [wrote EXCEPT ![r] = None]
    /\ UNCHANGED <<dataset, started, enabled, redis_client, redisUp, store>>

\* the redis server becomes unreachable, or reachable again
RedisFlips ==
    /\ started
    /\ AtAwait
    /\ redisUp' = ~redisUp
    /\ UNCHANGED <<dataset, started, enabled, redis_client, store, pc, intent,
                   batch, ret, stages, lookup, wrote>>

\* the time-to-live of an entry runs out
Expire ==
    /\ AtAwait
    /\ \E k \in DOMAIN store : store' = [x \in DOMAIN store \ {k} |-> store[x]]
    /\ UNCHANGED <<dataset, started, enabled, redis_client, redisUp, pc, intent,
                   batch, ret, stages, lookup, wrote>>

\* another writer leaves a value that is no itinerary list under a key
ForeignWrite ==
    /\ AtAwait
    /\ \E k \in DOMAIN store :
        /\ store[k].data.valid
        /\ store' = [store EXCEPT ![k].data = ForeignData]
    /\ UNCHANGED <<dataset, started, enabled, redis_client, redisUp, pc, intent,
                   batch, ret, stages, lookup, wrote>>

-----------------------------------------------------------------------------
(* PricePredictor._analyze (price_prediction.py).  confidence is in          *)
(* hundredths, predicted_change in whole dollars; day_of_week is 0 = Monday  *)
(* .. 6 = Sunday.                                                            *)

\* advice, confidence, predicted_change and factors before step 1
AnalysisDefaults ==
    [advice |-> "monitor", confidence |-> 50, predicted_change |-> 0,
     factors |-> <<>>]

\* a plausible slip: day 14 counted as last minute
AdvancePurchaseThrough14(days_to_departure) ==
    IF days_to_departure <= 14
    THEN [advice |-> "buy_now", confidence |-> 90, predicted_change |-> 50,
          factors |-> <<"Last minute booking - prices rising daily">>]
    ELSE IF 14 <= days_to_departure /\ days_to_departure <= 21
    THEN [advice |-> "buy_now", confidence |-> 80, predicted_change |-> 20,
          factors |-> <<"Entering high-price window (< 21 days)">>]
    ELSE IF 21 < days_to_departure /\ days_to_departure <= 60
    THEN [advice |-> "monitor", confidence |-> 60, predicted_change |-> 0,
          factors |-> <<"Standard booking window">>]
    ELSE IF days_to_departure > 90
    THEN [advice |-> "wait", confidence |-> 75, predicted_change |-> -30,
          factors |-> <<"Booking too early - airlines drop prices ~60 days out">>]
    ELSE AnalysisDefaults

\* 1. Advance Purchase Logic
AdvancePurchase(days_to_departure) ==
    IF days_to_departure < 14
    THEN [advice |-> "buy_now", confidence |-> 90, predicted_change |-> 50,
          factors |-> <<"Last minute booking - prices rising daily">>]
    ELSE IF 14 <= days_to_departure /\ days_to_departure <= 21
    THEN [advice |-> "buy_now", confidence |-> 80, predicted_change |-> 20,
          factors |-> <<"Entering high-price window (< 21 days)">>]
    ELSE IF 21 < days_to_departure /\ days_to_departure <= 60
    THEN [advice |-> "monitor", confidence |-> 60, predicted_change |-> 0,
          factors |-> <<"Standard booking window">>]
    ELSE IF days_to_departure > 90
    THEN [advice |-> "wait", confidence |-> 75, predicted_change |-> -30,
          factors |-> <<"Booking too early - airlines drop prices ~60 days out">>]
    ELSE AnalysisDefaults

\* a plausible slip: the weekend rule applied whatever the current advice
WeekendPremiumUnguarded(a, day_of_week) ==
    IF day_of_week \in {4, 6}
    THEN [a EXCEPT !.advice = "wait",
                   !.predicted_change = @ - 15,
                   !.factors = @ \o <<"Weekend departure premium applied",
                                      "Flying Tue/Wed could save ~10%">>]
    ELSE a

\* 2. Day of Week Logic: if day_of_week in [4, 6]
WeekendPremium(a, day_of_week) ==
    IF day_of_week \in {4, 6}
    THEN LET b == [a EXCEPT !.factors =
                      Append(@, "Weekend departure premium applied")]
         IN  IF b.advice = "monitor"
             THEN [b EXCEPT !.advice = "wait",
                            !.predicted_change = @ - 15,
                            !.factors = Append(@, "Flying Tue/Wed could save ~10%")]
             ELSE b
    ELSE a

\* 2. Day of Week Logic: if day_of_week in [1, 2]
MidWeekSavings(a, day_of_week) ==
    IF day_of_week \in {1, 2}
    THEN LET b == [a EXCEPT !.factors = Append(@, "Mid-week savings detected")]
         IN  IF b.advice = "monitor" THEN [b EXCEPT !.advice = "buy_now"] ELSE b
    ELSE a

\* 3. Seasonality
Seasonality(a, month) ==
    IF month \in {6, 7, 8, 12}
    THEN LET b == [a EXCEPT !.factors = Append(@, "High season demand")]
         IN  IF b.advice = "wait"
             THEN [b EXCEPT !.advice = "monitor",
                            !.predicted_change = @ + 10]
             ELSE b
    ELSE a

\* _analyze, given the three values it derives from intent.departure_date and
\* datetime.now(): the PriceReasoning it returns
_analyze(days_to_departure, day_of_week, month) ==
    LET a == Seasonality(
                 MidWeekSavings(
                     WeekendPremium(AdvancePurchase(days_to_departure), day_of_week),
                     day_of_week),
                 month)
    IN  [advice |-> a.advice,
         confidence_score |-> IF a.confidence < 95 THEN a.confidence ELSE 95,
         predicted_change_usd |-> a.predicted_change,
         factors |-> a.factors]

-----------------------------------------------------------------------------
(* The advisor harness: one departure date seen from one "now".              *)

\* most days from now to the departure; a departure already past is -1 day
MaxDays == 92

AdviseInit ==
    /\ aDays \in -1..MaxDays
    /\ aDow \in 0..6
    /\ aMonth \in 1..12
    /\ aOut = None

\* analysis = self._analyze(itinerary, intent)
Analyze ==
    /\ aOut = None
    /\ aOut' = Some(_analyze(aDays, aDow, aMonth))
    /\ UNCHANGED <<aDays, aDow, aMonth>>

-----------------------------------------------------------------------------
(* AmadeusProvider (amadeus.py).  An upstream offer is a record [id,         *)
(* itineraries, price]: itineraries is None when the offer lacks the key,    *)
(* else the list of its segments; price is None when the offer has no        *)
(* usable price, else the total in cents.  A segment's duration PT<h>H<m>M   *)
(* is the pair <<h, m>>.                                                     *)

\* _parse_duration("PT<h>H<m>M")
_parse_duration(pt_duration) == pt_duration[1] * 60 + pt_duration[2]

\* the Leg that _map_single_offer builds of one segment
SegmentLeg(segment) ==
    MkLeg(segment.departure, segment.arrival, segment.departure_at,
          segment.arrival_at, segment.carrierCode,
          segment.carrierCode \o segment.number)

\* _map_single_offer(offer, dictionaries): Some(itinerary), or None when the
\* mapping raises (a missing key, or a value that Itinerary rejects)
_map_single_offer(offer) ==
    IF offer.itineraries = None THEN None
    ELSE LET segments == offer.itineraries[1]
             legs == [k \in DOMAIN segments |-> SegmentLeg(segments[k])]
             total_duration ==
                 SeqSum([k \in DOMAIN segments |-> _parse_duration(segments[k].duration)])
         IN  IF offer.price = None \/ legs = <<>> THEN None
             ELSE Some(MkItinerary("amd_" \o offer.id, legs, <<>>, Len(legs) - 1,
                                   total_duration, Len(legs) = 1, offer.price[1],
                                   <<>>, <<>>, None, "Amadeus", 100, <<>>))

\* _map_response(data, intent): the offers that map, in their order
_map_response(data) ==
    LET mapped == [k \in DOMAIN data |-> _map_single_offer(data[k])]
        kept == SelectSeq(mapped, LAMBDA m : m # None)
    IN  [k \in DOMAIN kept |-> kept[k][1]]

\* get_token(): token_valid is "self.token and datetime.now() < token_expiry";
\* auth is the outcome of the token request
get_token(token_valid, auth) ==
    IF token_valid THEN [raised |-> FALSE, token |-> TRUE]
    ELSE IF auth = "ok" THEN [raised |-> FALSE, token |-> TRUE]
    ELSE [raised |-> TRUE, token |-> token_valid]

\* search(intent): creds is "client_id and client_secret are configured", net
\* the outcome of the flight-offers request, data the offers of its response
ProviderSearchResult(creds, token_valid, auth, net, data) ==
    IF ~creds THEN [raised |-> FALSE, value |-> <<>>, token |-> token_valid]
    ELSE LET t == get_token(token_valid, auth)
         IN  IF t.raised THEN [raised |-> TRUE, value |-> <<>>, token |-> t.token]
             ELSE IF net = "ok"
                  THEN [raised |-> FALSE, value |-> _map_response(data),
                        token |-> t.token]
                  ELSE [raised |-> FALSE, value |-> <<>>, token |-> t.token]

-----------------------------------------------------------------------------
(* The provider harness: one search against one upstream response.          *)

\* most offers in one upstream response
MaxOffers == 3

Segment(o, d, dep, arr, dur, number) ==
    [departure |-> o, arrival |-> d, departure_at |-> dep, arrival_at |-> arr,
     duration |-> dur, carrierCode |-> "AA", number |-> number]

\* the offers of a response, each as a function of its id
OfferKinds == {"direct", "one_stop", "no_itineraries", "no_price"}

Offer(kind, id) ==
    CASE kind = "direct" ->
            [id |-> id, price |-> Some(40000),
             itineraries |-> Some(<<Segment("JFK", "LAX", Dep0800, 13 * 3600,
                                            <<5, 0>>, "123")>>)]
      [] kind = "one_stop" ->
            [id |-> id, price |-> Some(25000),
             itineraries |-> Some(<<Segment("JFK", "BOS", Dep0800, 10 * 3600,
                                            <<2, 0>>, "10"),
                                    Segment("BOS", "LAX", 12 * 3600, 16 * 3600,
                                            <<4, 0>>, "20")>>)]
      [] kind = "no_itineraries" ->
            [id |-> id, price |-> Some(30000), itineraries |-> None]
      [] kind = "no_price" ->
            [id |-> id, price |-> None,
             itineraries |-> Some(<<Segment("JFK", "LAX", Dep0800, 13 * 3600,
                                            <<5, 0>>, "123")>>)]

Responses ==
    UNION {{[k \in 1..n |-> Offer(ks[k], ToString(k))] : ks \in [1..n -> OfferKinds]} :
           n \in 0..MaxOffers}

AuthOutcomes == {"ok", "rejected"}
NetOutcomes == {"ok", "status", "error"}

ProviderInit ==
    /\ pCreds \in BOOLEAN
    /\ pToken \in BOOLEAN
    /\ pData \in Responses
    /\ pOut = None

\* itineraries = await provider.search(intent)
ProviderSearch ==
    /\ pOut = None
    /\ \E auth \in AuthOutcomes, net \in NetOutcomes :
          LET r == ProviderSearchResult(pCreds, pToken, auth, net, pData)
          IN  /\ pOut' = Some([raised |-> r.raised, value |-> r.value,
                               auth |-> auth, net |-> net])
              /\ pToken' = r.token
    /\ UNCHANGED <<pCreds, pData>>

-----------------------------------------------------------------------------
(* Specifications *)

KeyIdle ==
    /\ kA = DefaultIntent
    /\ kB = DefaultIntent
    /\ keyA = ""
    /\ keyB = ""
    /\ kpc = "off"

DedupeIdle ==
    /\ objs = <<>>
    /\ dIn = <<>>
    /\ dOut = <<>>
    /\ dCalls = 0

NormIdle ==
    /\ nIn = None
    /\ nObj = None
    /\ nOut = None
    /\ npc = "off"

AdviseIdle ==
    /\ aDays = 0
    /\ aDow = 0
    /\ aMonth = 0
    /\ aOut = None

RankIdle ==
    /\ rIntent = None
    /\ rIn = <<>>
    /\ rWeights = None
    /\ rOut = None
    /\ rWin = None

ProviderIdle ==
    /\ pCreds = FALSE
    /\ pToken = FALSE
    /\ pData = <<>>
    /\ pOut = None

SearchIdle ==
    /\ dataset = None
    /\ started = FALSE
    /\ enabled = FALSE
    /\ redis_client = FALSE
    /\ redisUp = FALSE
    /\ store = <<>>
    /\ pc = <<>>
    /\ intent = <<>>
    /\ batch = <<>>
    /\ ret = <<>>
    /\ stages = <<>>
    /\ lookup = <<>>
    /\ wrote = <<>>

\* the service: startup, then search requests against the shared cache
Init == SearchInit /\ KeyIdle /\ DedupeIdle /\ NormIdle /\ AdviseIdle /\ RankIdle /\ ProviderIdle
Next ==
    \/ Startup /\ UNCHANGED <<keyVars, dedupeVars, normVars, adviseVars, rankVars, providerVars>>
    \/ \E r \in Reqs : Start(r) /\ UNCHANGED <<keyVars, dedupeVars, normVars, adviseVars, rankVars, providerVars>>
    \/ \E r \in Reqs : Lookup(r) /\ UNCHANGED <<keyVars, dedupeVars, normVars, adviseVars, rankVars, providerVars>>
    \/ \E r \in Reqs : Fetch(r) /\ UNCHANGED <<keyVars, dedupeVars, normVars, adviseVars, rankVars, providerVars>>
    \/ \E r \in Reqs : NormalizeBatch(r) /\ UNCHANGED <<keyVars, dedupeVars, normVars, adviseVars, rankVars, providerVars>>
    \/ \E r \in Reqs : DedupeBatch(r) /\ UNCHANGED <<keyVars, dedupeVars, normVars, adviseVars, rankVars, providerVars>>
    \/ \E r \in Reqs : RankBatch(r) /\ UNCHANGED <<keyVars, dedupeVars, normVars, adviseVars, rankVars, providerVars>>
    \/ \E r \in Reqs : StoreBatch(r) /\ UNCHANGED <<keyVars, dedupeVars, normVars, adviseVars, rankVars, providerVars>>
    \/ \E r \in Reqs : Respond(r) /\ UNCHANGED <<keyVars, dedupeVars, normVars, adviseVars, rankVars, providerVars>>
    \/ RedisFlips /\ UNCHANGED <<keyVars, dedupeVars, normVars, adviseVars, rankVars, providerVars>>
    \/ Expire /\ UNCHANGED <<keyVars, dedupeVars, normVars, adviseVars, rankVars, providerVars>>
    \/ ForeignWrite /\ UNCHANGED <<keyVars, dedupeVars, normVars, adviseVars, rankVars, providerVars>>
Spec == Init /\ [][Next]_vars

\* the cache key of one intent and of a variant of it
InitKey == KeyInit /\ DedupeIdle /\ NormIdle /\ AdviseIdle /\ RankIdle /\ SearchIdle /\ ProviderIdle
NextKey ==
    \/ KeyFirst /\ UNCHANGED <<dedupeVars, normVars, adviseVars, rankVars, searchVars, providerVars>>
    \/ KeySecond /\ UNCHANGED <<dedupeVars, normVars, adviseVars, rankVars, searchVars, providerVars>>
SpecKey == InitKey /\ [][NextKey]_vars

\* deduplicate on a list of candidates, invoked up to MaxCalls times
InitDedupe == DedupeInit /\ KeyIdle /\ NormIdle /\ AdviseIdle /\ RankIdle /\ SearchIdle /\ ProviderIdle
NextDedupe ==
    \/ Deduplicate /\ UNCHANGED <<keyVars, normVars, adviseVars, rankVars, searchVars, providerVars>>
    \/ DeduplicateSameInput /\ UNCHANGED <<keyVars, normVars, adviseVars, rankVars, searchVars, providerVars>>
    \/ DeduplicatePreviousResult /\ UNCHANGED <<keyVars, normVars, adviseVars, rankVars, searchVars, providerVars>>
SpecDedupe == InitDedupe /\ [][NextDedupe]_vars

\* normalize on one candidate
InitNorm == NormInit /\ KeyIdle /\ DedupeIdle /\ AdviseIdle /\ RankIdle /\ SearchIdle /\ ProviderIdle
NextNorm == Normalize /\ UNCHANGED <<keyVars, dedupeVars, adviseVars, rankVars, searchVars, providerVars>>
SpecNorm == InitNorm /\ [][NextNorm]_vars

\* the price advisor on one departure date
InitAdvise == AdviseInit /\ KeyIdle /\ DedupeIdle /\ NormIdle /\ RankIdle /\ SearchIdle /\ ProviderIdle
NextAdvise == Analyze /\ UNCHANGED <<keyVars, dedupeVars, normVars, rankVars, searchVars, providerVars>>
SpecAdvise == InitAdvise /\ [][NextAdvise]_vars

\* a ranker on one batch
InitRank == RankInit /\ KeyIdle /\ DedupeIdle /\ NormIdle /\ AdviseIdle /\ SearchIdle /\ ProviderIdle
NextRank ==
    \/ ConstructRanker /\ UNCHANGED <<keyVars, dedupeVars, normVars, adviseVars, searchVars, providerVars>>
    \/ Rank /\ UNCHANGED <<keyVars, dedupeVars, normVars, adviseVars, searchVars, providerVars>>
    \/ CategoryWinners /\ UNCHANGED <<keyVars, dedupeVars, normVars, adviseVars, searchVars, providerVars>>
SpecRank == InitRank /\ [][NextRank]_vars

\* a provider search on one upstream response
InitProvider == ProviderInit /\ KeyIdle /\ DedupeIdle /\ NormIdle /\ AdviseIdle /\ RankIdle /\ SearchIdle
NextProvider == ProviderSearch /\ UNCHANGED <<keyVars, dedupeVars, normVars, adviseVars, rankVars, searchVars>>
SpecProvider == InitProvider /\ [][NextProvider]_vars

-----------------------------------------------------------------------------
(* Claims about search(intent) *)

AllStages ==
    <<"cache_lookup", "fetch", "normalize", "deduplicate", "rank", "cache_store">>

IsPrefix(a, b) == Len(a) <= Len(b) /\ \A k \in DOMAIN a : a[k] = b[k]

\* the lookup of request r found a readable entry under the intent's key
FoundEntry(r) == lookup[r] # None /\ lookup[r][1].log = "hit"

\* C1 (as claimed): whenever the lookup of a request finds an unexpired entry
\* under the intent's key in a reachable cache, the request returns exactly
\* the cached list with the hit flag set, and runs no fetch, normalize,
\* deduplicate or rank stage and no cache write, whatever the length of the
\* cached list.
C1_HitReturnsCachedList ==
    \A r \in Reqs :
        FoundEntry(r) =>
            /\ pc[r] = "done"
            /\ ret[r] = Some([itineraries |-> lookup[r][1].value[1],
                              cache_hit |-> TRUE])
            /\ stages[r] = <<"cache_lookup">>
            /\ wrote[r] = None

\* the ranked batches that the stages of a miss compute for request r
FreshBatches(r) ==
    {rank_itineraries(DeduplicatedList(n), _get_weights(Some(intent[r]))) :
        n \in NormalizedLists(_fetch_results(dataset, intent[r]).value)}

\* on a miss the stages run in the order of AllStages, each once, and the
\* request returns the ranked batch with the hit flag cleared
MissRunsAllStages ==
    \A r \in Reqs :
        /\ IsPrefix(stages[r], AllStages)
        /\ (ret[r] # None /\ ~ret[r][1].cache_hit) =>
              /\ stages[r] = AllStages
              /\ ret[r][1].itineraries = batch[r]
              /\ batch[r] \in FreshBatches(r)
              /\ wrote[r] # None
              /\ wrote[r][1].log = "stored" =>
                    wrote[r][1].call =
                        Some([key |-> _generate_cache_key(intent[r]), ttl |-> 300,
                              data |-> Serialize(batch[r])])

\* the store step of a request, with the cache in use and the server
\* reachable, leaves the ranked batch under the intent's key with 300 seconds
\* to live
StoreStepWrites ==
    \A r \in Reqs :
        (pc[r] = "store" /\ pc'[r] # "store"
            /\ enabled /\ redis_client /\ redisUp) =>
            LET k == _generate_cache_key(intent[r])
            IN  /\ k \in DOMAIN store'
                /\ store'[k] = [data |-> Serialize(batch[r]), ttl |-> 300]
                /\ \A x \in DOMAIN store \ {k} :
                      x \in DOMAIN store' /\ store'[x] = store[x]

\* C2: on a cache miss the stages of search(intent) run strictly in the order
\* cache lookup, fetch, normalize, deduplicate, rank, cache store, each once
\* (the code has no advise stage); the ranked batch is stored under the
\* intent's key with a time-to-live of 300 seconds, and the same ranked batch
\* is returned with the hit flag cleared.
C2_MissPipeline == []MissRunsAllStages /\ [][StoreStepWrites]_vars

\* C2 witness: a request that missed has returned a ranked batch of two
\* itineraries, and that batch is in the cache under its key with 300 seconds
\* to live.
C2_Witness ==
    \E r \in Reqs :
        /\ pc[r] = "done"
        /\ ret[r] # None /\ ~ret[r][1].cache_hit
        /\ Len(ret[r][1].itineraries) = 2
        /\ lookup[r][1].log = "miss"
        /\ wrote[r][1].log = "stored"
        /\ _generate_cache_key(intent[r]) \in DOMAIN store
        /\ store[_generate_cache_key(intent[r])] =
              [data |-> Serialize(ret[r][1].itineraries), ttl |-> 300]

CacheFailed(l) == l \in {"disabled", "error"}

\* no request fails in a cache stage; a read that cannot be served is a miss;
\* a write that cannot be served is followed by the return of the fresh batch
CacheFailuresAbsorbed ==
    \A r \in Reqs :
        /\ pc[r] = "failed" => stages[r] = SubSeq(AllStages, 1, 2)
        /\ lookup[r] # None => ~lookup[r][1].raised
        /\ (lookup[r] # None /\ CacheFailed(lookup[r][1].log)) =>
              /\ lookup[r][1].value = None
              /\ pc[r] # "lookup"
              /\ ret[r] # None => ~ret[r][1].cache_hit
              /\ pc[r] = "done" => stages[r] = AllStages
        /\ (wrote[r] # None /\ CacheFailed(wrote[r][1].log)) =>
              /\ wrote[r][1].call = None
              /\ pc[r] = "done"
              /\ ret[r] = Some([itineraries |-> batch[r], cache_hit |-> FALSE])
              /\ batch[r] \in FreshBatches(r)

\* a store step with the cache disabled or the server unreachable leaves the
\* keyspace as it was
FailedWriteIsNoOp ==
    \A r \in Reqs :
        (pc[r] = "store" /\ pc'[r] # "store"
            /\ ~(enabled /\ redis_client /\ redisUp)) =>
            /\ store' = store
            /\ pc'[r] = "done"

\* C3: when the cache is disabled, unreachable, or a cache read or write
\* raises, search(intent) does not fail because of it: the read is treated as
\* a miss, the write changes nothing and raises nothing, and the request
\* returns the freshly computed ranked batch with the hit flag cleared.  (The
\* only stage in which a request fails is the fetch.)
C3_CacheFailuresDoNotFail == []CacheFailuresAbsorbed /\ [][FailedWriteIsNoOp]_vars

\* C3 witness: a request whose cache read and cache write both raised inside
\* the cache manager (the server went away after startup) has returned a
\* non-empty fresh batch with the hit flag cleared.
C3_Witness ==
    \E r \in Reqs :
        /\ pc[r] = "done"
        /\ lookup[r][1].log = "error"
        /\ wrote[r][1].log = "error"
        /\ ret[r] # None /\ ~ret[r][1].cache_hit
        /\ ret[r][1].itineraries # <<>>

-----------------------------------------------------------------------------
(* Claims about the cache key *)

OtherKeyFieldsEqual(a, b) ==
    /\ a.departure_date = b.departure_date
    /\ a.cabin_class = b.cabin_class
    /\ a.nonstop_only = b.nonstop_only
    /\ a.max_price_usd = b.max_price_usd
    /\ a.max_duration_hours = b.max_duration_hours
    /\ a.no_red_eyes = b.no_red_eyes
    /\ a.no_overnight_layovers = b.no_overnight_layovers
    /\ a.priority = b.priority

SameUpToCodeOrder(a, b) ==
    /\ OtherKeyFieldsEqual(a, b)
    /\ a.max_stops = b.max_stops
    /\ IsPermutation(a.origins, b.origins)
    /\ IsPermutation(a.destinations, b.destinations)

DifferOnlyInMaxStops(a, b) ==
    /\ OtherKeyFieldsEqual(a, b)
    /\ a.origins = b.origins
    /\ a.destinations = b.destinations
    /\ a.max_stops # b.max_stops

\* C4: two intents that are identical except that their origin and/or
\* destination lists are permutations of each other get the same cache key.
C4_KeyIndependentOfCodeOrder ==
    (kpc = "two" /\ SameUpToCodeOrder(kA, kB)) => keyA = keyB

\* C4 witness: both keys computed, for intents whose origin lists and whose
\* destination lists are each other's reversal.
C4_Witness ==
    /\ kpc = "two"
    /\ SameUpToCodeOrder(kA, kB)
    /\ kA.origins = <<"JFK", "LAX">> /\ kB.origins = <<"LAX", "JFK">>
    /\ kA.destinations # kB.destinations
    /\ keyA = "search:JFK-LAX:BOS-LAX:2024-06-15:economy:any:balanced"

\* C5 (as claimed): the max-stops component of the key is "any" exactly when
\* max_stops is unset and is the value otherwise (0 included), and two intents
\* that differ only in max_stops never share a key.
C5_MaxStopsComponent ==
    /\ kpc \in {"one", "two"} =>
        /\ (key_parts(kA)[6] = "any") <=> (kA.max_stops = None)
        /\ kA.max_stops # None => key_parts(kA)[6] = ToString(kA.max_stops[1])
    /\ (kpc = "two" /\ DifferOnlyInMaxStops(kA, kB)) => keyA # keyB

-----------------------------------------------------------------------------
(* Claims about the deduplicator *)

SigOf(ref) == _compute_signature(objs[ref])

\* the members of the list last handed to deduplicate that share ref's signature
GroupOf(ref) == {g \in Range(dIn) : SigOf(g) = SigOf(ref)}

Winners == Range(dOut)

\* C6: deduplicate returns exactly one candidate for each signature of its
\* input, each returned candidate is a member of the input, the result is no
\* longer than the input, and no signature of the input is lost.
C6_OnePerSignature ==
    dCalls >= 1 =>
        /\ Len(dOut) <= Len(dIn)
        /\ \A k \in DOMAIN dOut : dOut[k] \in Range(dIn)
        /\ \A j, k \in DOMAIN dOut : j # k => SigOf(dOut[j]) # SigOf(dOut[k])
        /\ \A g \in Range(dIn) : \E k \in DOMAIN dOut : SigOf(dOut[k]) = SigOf(g)

\* C6 witness: three candidates, two of one signature and one of another,
\* deduplicated to two.
C6_Witness ==
    /\ dCalls >= 1
    /\ Len(dIn) = 3
    /\ Len(dOut) = 2
    /\ \E g \in Range(dIn) : Cardinality(GroupOf(g)) = 2

\* C7: in every signature group of more than one candidate, the kept candidate
\* has the group's minimum total price and, among the group's candidates at
\* that price, the maximum provider trust score.
C7_WinnerCheapestThenMostTrusted ==
    dCalls >= 1 =>
        \A w \in Winners :
            Cardinality(GroupOf(w)) > 1 =>
                /\ \A g \in GroupOf(w) :
                    objs[w].price.total_usd <= objs[g].price.total_usd
                /\ \A g \in GroupOf(w) :
                    objs[g].price.total_usd = objs[w].price.total_usd
                        => objs[g].provider.trust_score <= objs[w].provider.trust_score

\* C7 witness: a group whose two cheapest candidates tie on price and differ
\* in trust, the less trusted one first in the list.
C7_Witness ==
    /\ dCalls >= 1
    /\ \E w \in Winners : \E g \in GroupOf(w) :
        /\ g < w
        /\ objs[g].price.total_usd = objs[w].price.total_usd
        /\ objs[g].provider.trust_score < objs[w].provider.trust_score

\* the notes that mention provider name p: "Also available via: " followed by
\* a comma-joined list that holds p
NotesMentioning(p) ==
    {AlsoAvailableNote(ps) :
        ps \in {q \in UNION {[1..n -> ProviderNames] : n \in 1..(MaxDedupe + 1)} :
                    p \in Range(q)}}

MentionCount(ref, p) ==
    Cardinality({j \in DOMAIN objs[ref].provider.notes :
                    objs[ref].provider.notes[j] \in NotesMentioning(p)})

\* two candidates with the same leg signature, from different providers, at
\* $100 and $120
TwoOffersScenario ==
    /\ Len(objs) = 2
    /\ SigOf(1) = SigOf(2)
    /\ objs[1].provider.provider_name # objs[2].provider.provider_name
    /\ {objs[1].price.total_usd, objs[2].price.total_usd} = {10000, 12000}

TwoOffersOutcome ==
    /\ Len(dOut) = 1
    /\ objs[dOut[1]].price.total_usd = 10000
    /\ \A o \in {1, 2} \ {dOut[1]} :
        MentionCount(dOut[1], objs[o].provider.provider_name) = 1

\* C8 (as claimed): for two candidates with identical leg signatures from
\* different providers at prices 100 and 120, deduplicate returns one record,
\* the one priced 100, whose notes mention the other provider exactly once,
\* and this still holds after a second invocation.
C8_TwoOffersOneNote ==
    (dCalls >= 1 /\ TwoOffersScenario) => TwoOffersOutcome

\* the provider names of the members of ref's group other than ref itself, as
\* a bag: name |-> number of other members with that name
OtherNameCount(ref, p) ==
    Cardinality({g \in GroupOf(ref) \ {ref} : objs[g].provider.provider_name = p})

ListsOthersOf(ps, ref) ==
    \A p \in ProviderNames :
        Cardinality({i \in DOMAIN ps : ps[i] = p}) = OtherNameCount(ref, p)

\* C9 (as claimed): for every signature group of size > 1 the winner's notes
\* hold a note "Also available via: ..." that lists the provider name of every
\* group member other than the winner, one name per other member.
C9_NoteListsEveryOtherMember ==
    dCalls >= 1 =>
        \A w \in Winners :
            Cardinality(GroupOf(w)) > 1 =>
                \E ps \in UNION {[1..n -> ProviderNames] : n \in 1..(MaxDedupe + 1)} :
                    /\ ListsOthersOf(ps, w)
                    /\ AlsoAvailableNote(ps) \in Range(objs[w].provider.notes)

-----------------------------------------------------------------------------
(* Claims about the normalizer *)

\* seconds from the first leg's departure to the last leg's arrival
ElapsedSeconds(itin) ==
    itin.legs[Len(itin.legs)].arrival_time - itin.legs[1].departure_time

\* m is the number of whole minutes in s seconds (the fraction dropped)
WholeMinutes(m, s) ==
    IF s >= 0 THEN 60 * m <= s /\ s < 60 * (m + 1)
    ELSE 60 * (m - 1) < s /\ s <= 60 * m

\* C10: after normalize, for an itinerary with at least one leg,
\* num_stops = len(legs) - 1, is_direct = (num_stops = 0) and
\* total_duration_minutes is the whole minutes between the first leg's
\* departure and the last leg's arrival, whatever the provider supplied.
C10_DerivedFieldsRecomputed ==
    (npc = "done" /\ Len(nOut[1].legs) >= 1) =>
        /\ nOut[1].num_stops = Len(nOut[1].legs) - 1
        /\ nOut[1].is_direct = (nOut[1].num_stops = 0)
        /\ WholeMinutes(nOut[1].total_duration_minutes, ElapsedSeconds(nOut[1]))
        /\ nOut[1].legs = nIn.legs

\* C10 witness: a two-leg candidate supplied as direct with 3 stops and a
\* duration of 1 minute, whose elapsed time is not a whole number of minutes,
\* normalized to 1 stop, not direct.
C10_Witness ==
    /\ npc = "done"
    /\ Len(nIn.legs) = 2
    /\ nIn.is_direct /\ nIn.num_stops = 3 /\ nIn.total_duration_minutes = 1
    /\ ElapsedSeconds(nIn) % 60 # 0
    /\ nOut[1].num_stops = 1 /\ ~nOut[1].is_direct
    /\ nOut[1].total_duration_minutes = 210

\* the flag set that the layovers and the legs of a candidate determine
ExpectedRiskSet(itin) ==
    {f \in {"tight_connection", "long_layover", "overnight_layover",
            "airport_change", "red_eye"} :
        \/ /\ f = "tight_connection"
           /\ \E k \in DOMAIN itin.layovers : itin.layovers[k].duration_minutes < 90
        \/ /\ f = "long_layover"
           /\ \E k \in DOMAIN itin.layovers :
                  /\ 360 <= itin.layovers[k].duration_minutes
                  /\ itin.layovers[k].duration_minutes < 720
        \/ /\ f = "overnight_layover"
           /\ \E k \in DOMAIN itin.layovers :
                  \/ itin.layovers[k].duration_minutes >= 720
                  \/ itin.layovers[k].overnight
        \/ /\ f = "airport_change"
           /\ \E k \in DOMAIN itin.layovers : itin.layovers[k].airport_change
        \/ /\ f = "red_eye"
           /\ \E k \in DOMAIN itin.legs :
                  LET h == (itin.legs[k].departure_time % SecondsPerDay) \div 3600
                  IN  h >= 22 \/ h < 5}

NoRepeats(s) == \A i, j \in DOMAIN s : i # j => s[i] # s[j]

C12_NormalizeLeavesArgument ==
    npc = "done" => nObj = nIn

-----------------------------------------------------------------------------
(* Claims about the price advisor *)

\* step 1 of the cascade: <<advice, confidence, predicted_change>>
Baseline(days) ==
    IF days < 14 THEN <<"buy_now", 90, 50>>
    ELSE IF days <= 21 THEN <<"buy_now", 80, 20>>
    ELSE IF days <= 60 THEN <<"monitor", 60, 0>>
    ELSE IF days <= 90 THEN <<"monitor", 50, 0>>
    ELSE <<"wait", 75, -30>>

\* step 2 of the cascade
AfterWeekday(b, dow) ==
    IF dow \in {4, 6} /\ b[1] = "monitor" THEN <<"wait", b[2], b[3] - 15>>
    ELSE IF dow \in {1, 2} /\ b[1] = "monitor" THEN <<"buy_now", b[2], b[3]>>
    ELSE b

\* step 3 of the cascade
AfterSeason(b, month) ==
    IF month \in {6, 7, 8, 12} /\ b[1] = "wait" THEN <<"monitor", b[2], b[3] + 10>>
    ELSE b

\* C13: for every days-to-departure, departure weekday and departure month the
\* advisory equals the result of the ordered cascade of baseline, weekday rule
\* and seasonality rule; the later steps leave the baseline confidence as it
\* is, and the final confidence is at most 0.95.
C13_AdvisoryIsCascade ==
    aOut # None =>
        LET c == AfterSeason(AfterWeekday(Baseline(aDays), aDow), aMonth)
        IN  /\ aOut[1].advice = c[1]
            /\ aOut[1].confidence_score = c[2]
            /\ aOut[1].predicted_change_usd = c[3]
            /\ aOut[1].confidence_score = Baseline(aDays)[2]
            /\ aOut[1].confidence_score <= 95

\* C13 witness: a departure 75 days out on a Friday in July has been analyzed:
\* the baseline monitor became wait in step 2 and monitor again in step 3,
\* with a predicted change of -15 + 10.
C13_Witness ==
    /\ aOut # None
    /\ aDays = 75 /\ aDow = 4 /\ aMonth = 7
    /\ aOut[1].advice = "monitor"
    /\ aOut[1].predicted_change_usd = -5
    /\ aOut[1].confidence_score = 50

\* C14: whenever the baseline yields buy_now (at most 21 days to departure)
\* the weekday and seasonality rules only append factors: the final advice is
\* buy_now with the baseline's confidence and predicted change; a departure
\* 10 days out on a Friday in July ends with buy_now, 0.9, +50.
C14_BuyNowNeverOverridden ==
    (aOut # None /\ aDays <= 21) =>
        /\ aOut[1].advice = "buy_now"
        /\ aOut[1].confidence_score = (IF aDays < 14 THEN 90 ELSE 80)
        /\ aOut[1].predicted_change_usd = (IF aDays < 14 THEN 50 ELSE 20)
        /\ aOut[1].factors[1] = AdvancePurchase(aDays).factors[1]
        /\ (aDays = 10 /\ aDow = 4 /\ aMonth = 7) =>
              /\ aOut[1].advice = "buy_now"
              /\ aOut[1].confidence_score = 90
              /\ aOut[1].predicted_change_usd = 50

\* C14 witness: the departure 10 days out on a Friday in July has been
\* analyzed, and both later rules appended their factor.
C14_Witness ==
    /\ aOut # None
    /\ aDays = 10 /\ aDow = 4 /\ aMonth = 7
    /\ aOut[1].factors = <<"Last minute booking - prices rising daily",
                           "Weekend departure premium applied",
                           "High season demand">>

-----------------------------------------------------------------------------
(* Claims about the ranker *)

Dimensions ==
    {"price", "duration", "stops", "layover", "baggage", "risk", "reliability"}

RECURSIVE SumOver(_, _)
SumOver(f, S) ==
    IF S = {} THEN 0
    ELSE LET x == CHOOSE y \in S : TRUE IN f[x] + SumOver(f, S \ {x})

KnownPriorities == {"cheap", "fast", "comfort", "balanced"}

\* C15: each of the four profiles cheap, fast, comfort and balanced weighs
\* exactly the seven dimensions and its weights sum to 1.0; a ranker
\* constructed with no intent or with an unrecognized priority uses the
\* balanced profile (and one constructed with a known priority uses that
\* profile).
C15_WeightProfiles ==
    /\ \A p \in KnownPriorities :
          /\ p \in DOMAIN DEFAULT_WEIGHTS
          /\ DOMAIN DEFAULT_WEIGHTS[p] = Dimensions
          /\ SumOver(DEFAULT_WEIGHTS[p], Dimensions) = 100
    /\ rWeights # None =>
          IF rIntent # None /\ rIntent[1].priority \in KnownPriorities
          THEN rWeights[1] = DEFAULT_WEIGHTS[rIntent[1].priority]
          ELSE rWeights[1] = DEFAULT_WEIGHTS["balanced"]

\* C15 witness: a ranker constructed with the priority "luxury" has ranked a
\* batch of two and recorded the balanced weights in the score breakdown.
C15_Witness ==
    /\ rIntent # None /\ rIntent[1].priority = "luxury"
    /\ rOut # None /\ Len(rOut[1]) = 2
    /\ rOut[1][1].score_breakdown[1].weights.price = 25

BatchPrices == {rIn[k].price.total_usd : k \in DOMAIN rIn}

PriceScore(x) == x.score_breakdown[1].price_score

\* C16: within one ranked batch price_score is 100 for every candidate at the
\* batch's minimum total price, 0 for every candidate at its maximum (100 for
\* all when all prices are equal), and a candidate with a lower total price
\* never has a lower price_score.
C16_PriceScore ==
    rOut # None =>
        \A i \in DOMAIN rOut[1] :
            LET x == rOut[1][i] IN
            /\ (\A q \in BatchPrices : x.price.total_usd <= q) => PriceScore(x) = 10000
            /\ ((\A q \in BatchPrices : x.price.total_usd >= q)
                    /\ Cardinality(BatchPrices) > 1) => PriceScore(x) = 0
            /\ \A j \in DOMAIN rOut[1] :
                  x.price.total_usd < rOut[1][j].price.total_usd =>
                      PriceScore(x) >= PriceScore(rOut[1][j])

\* C16 witness: a ranked batch of three with three different prices, whose
\* middle-priced candidate scores strictly between 0 and 100 on price.
C16_Witness ==
    /\ rOut # None
    /\ Cardinality(BatchPrices) = 3
    /\ \E i \in DOMAIN rOut[1] : PriceScore(rOut[1][i]) = 6667

HasIncludedItem(x, type) ==
    \E k \in DOMAIN x.baggage : x.baggage[k].included /\ x.baggage[k].type = type

\* C17 (as claimed): baggage_score is 50, plus 25 if the candidate has at
\* least one included carry-on item, plus 25 if it has at least one included
\* checked bag, capped at 100, however many entries of a type are listed.
C17_BaggageScoreByType ==
    rOut # None =>
        \A i \in DOMAIN rOut[1] :
            rOut[1][i].score_breakdown[1].baggage_score =
                100 * (50 + (IF HasIncludedItem(rOut[1][i], "carry_on") THEN 25 ELSE 0)
                          + (IF HasIncludedItem(rOut[1][i], "checked") THEN 25 ELSE 0))

ScoreOr0(x) == IF x.score = None THEN 0 ELSE x.score[1]

\* the candidate as it was before the ranker assigned its results to it
Unscored(x) ==
    [x EXCEPT !.score = None, !.score_breakdown = None, !.explanation = None]

\* the position in the input batch of the candidate with the id of x
InputPosition(x) ==
    CHOOSE k \in DOMAIN rIn : rIn[k].itinerary_id = x.itinerary_id

\* C18: rank_itineraries returns a permutation of its input ordered by
\* non-increasing total score, candidates of equal score in their input
\* order; for an empty input it returns an empty list.
C18_RankedStablePermutation ==
    rOut # None =>
        LET out == rOut[1] IN
        /\ Len(out) = Len(rIn)
        /\ \A k \in DOMAIN rIn :
              \E i \in DOMAIN out : Unscored(out[i]) = rIn[k]
        /\ \A i, j \in DOMAIN out :
              i < j =>
                  /\ ScoreOr0(out[i]) >= ScoreOr0(out[j])
                  /\ ScoreOr0(out[i]) = ScoreOr0(out[j]) =>
                        InputPosition(out[i]) < InputPosition(out[j])
        /\ rIn = <<>> => out = <<>>

\* C18 witness: a batch of three whose first two candidates tie on score and
\* whose third scores higher has been ranked: the third comes first and the
\* tied two follow in their input order.
C18_Witness ==
    /\ rOut # None
    /\ Len(rOut[1]) = 3
    /\ rOut[1][1].itinerary_id = "itin_3"
    /\ rOut[1][2].itinerary_id = "itin_1"
    /\ rOut[1][3].itinerary_id = "itin_2"
    /\ rOut[1][2].score = rOut[1][3].score
    /\ rOut[1][1].score # rOut[1][2].score

\* x is the first candidate of batch b that is minimal under the key k
FirstMinimal(x, b, k(_)) ==
    \E i \in DOMAIN b :
        /\ x = b[i]
        /\ \A j \in DOMAIN b : k(b[i]) <= k(b[j])
        /\ \A j \in DOMAIN b : j < i => k(b[j]) > k(b[i])

PriceOf(x) == x.price.total_usd
MinutesOf(x) == x.total_duration_minutes
StopsOf(x) == x.num_stops
NegScoreOf(x) == -ScoreOr0(x)

\* C19: for a non-empty batch get_category_winners returns cheapest = the
\* first candidate of minimal total price, fastest = the first of minimal
\* total duration, best_overall = the first of maximal score, most_direct =
\* the first of minimal stop count; for an empty batch it returns no winners.
\* (The call has no statement that assigns to the batch or its candidates.)
C19_CategoryWinners ==
    rWin # None =>
        LET b == rWin[1].batch
            w == rWin[1].winners
        IN  /\ b \in {rIn} \cup (IF rOut # None THEN {rOut[1]} ELSE {})
            /\ IF b = <<>> THEN DOMAIN w = {}
               ELSE /\ DOMAIN w = {"cheapest", "fastest", "best_overall", "most_direct"}
                    /\ FirstMinimal(w.cheapest, b, PriceOf)
                    /\ FirstMinimal(w.fastest, b, MinutesOf)
                    /\ FirstMinimal(w.best_overall, b, NegScoreOf)
                    /\ FirstMinimal(w.most_direct, b, StopsOf)

\* C19 witness: the winners of a ranked batch of three in which two
\* candidates tie on the lowest price and the cheapest is not the fastest.
C19_Witness ==
    /\ rWin # None /\ rOut # None
    /\ rWin[1].batch = rOut[1]
    /\ Len(rOut[1]) = 3
    /\ \E i, j \in DOMAIN rOut[1] :
          /\ i < j
          /\ rOut[1][i].price.total_usd = rOut[1][j].price.total_usd
          /\ rOut[1][i] = rWin[1].winners.cheapest
    /\ rWin[1].winners.cheapest # rWin[1].winners.fastest
    /\ rWin[1].winners.best_overall = rOut[1][1]

\* the batch of the end-to-end example: one direct itinerary at $400 lasting
\* 5 h and one 1-stop itinerary at $250 lasting 8 h with a single layover of
\* 2 h, equal in baggage, provider trust and signals, ranked for "cheap"
EndToEndBatch ==
    /\ rIntent # None /\ rIntent[1].priority = "cheap"
    /\ Len(rIn) = 2
    /\ \E d, o \in DOMAIN rIn :
          /\ rIn[d].is_direct /\ rIn[d].num_stops = 0
          /\ rIn[d].price.total_usd = 40000
          /\ rIn[d].total_duration_minutes = 300
          /\ rIn[o].num_stops = 1
          /\ rIn[o].price.total_usd = 25000
          /\ rIn[o].total_duration_minutes = 480
          /\ Len(rIn[o].layovers) = 1
          /\ rIn[o].layovers[1].duration_minutes = 120
          /\ rIn[d].baggage = rIn[o].baggage
          /\ rIn[d].provider = rIn[o].provider
          /\ rIn[d].signals = rIn[o].signals

\* C20: in the end-to-end example the $250 itinerary is ranked first, and the
\* category winners are cheapest = the $250 record, fastest = the $400 record
\* and most_direct = the $400 record.
C20_EndToEndCheap ==
    EndToEndBatch =>
        /\ rOut # None =>
              /\ rOut[1][1].price.total_usd = 25000
              /\ rOut[1][2].price.total_usd = 40000
        /\ rWin # None =>
              /\ rWin[1].winners.cheapest.price.total_usd = 25000
              /\ rWin[1].winners.fastest.price.total_usd = 40000
              /\ rWin[1].winners.most_direct.price.total_usd = 40000

\* C20 witness: the example batch, given with the $400 itinerary first, has
\* been ranked and the winners of the ranked list have been taken.
C20_Witness ==
    /\ EndToEndBatch
    /\ rIn[1].price.total_usd = 40000
    /\ rOut # None /\ rWin # None
    /\ rWin[1].batch = rOut[1]
    /\ rOut[1][1].score[1] > rOut[1][2].score[1]

-----------------------------------------------------------------------------
(* Claims about fetching *)

\* C21 (as claimed): a provider's search never propagates an exception to its
\* caller: a failure of the token request, of the network call or of the
\* parsing of the response resolves to an empty candidate list.
C21_FetchNeverRaises ==
    pOut # None =>
        /\ ~pOut[1].raised
        /\ (pCreds /\ pOut[1].net # "ok") => pOut[1].value = <<>>

\* the objects of the dataset that Itinerary(**itin_data) accepts, in order
GoodRecords ==
    LET kept == SelectSeq(dataset[1], LAMBDA x : x # None)
    IN  [k \in DOMAIN kept |-> kept[k][1]]

\* C22 (as claimed): when one object of the fallback dataset cannot be mapped
\* to an Itinerary, only that object is skipped: the fetch of a request does
\* not fail, and it yields the other objects that pass the intent's filters,
\* in their original order.
C22_BadRecordSkipped ==
    \A r \in Reqs :
        (dataset # None /\ stages[r] # <<>>
            /\ stages[r][Len(stages[r])] = "fetch") =>
            /\ pc[r] # "failed"
            /\ batch[r] = _filter_by_intent(GoodRecords, intent[r])

\* the constraints of intent i, evaluated on the itinerary x
SatisfiesIntent(x, i) ==
    /\ x.legs[1].origin.code \in Range(i.origins)
    /\ x.legs[Len(x.legs)].destination.code \in Range(i.destinations)
    /\ i.nonstop_only => x.is_direct
    /\ i.max_stops # None => x.num_stops <= i.max_stops[1]
    /\ i.max_price_usd # None => x.price.total_usd <= i.max_price_usd[1]
    /\ i.max_duration_hours # None =>
          x.total_duration_minutes <= i.max_duration_hours[1] * 60
    /\ i.no_red_eyes =>
          \A k \in DOMAIN x.legs :
              LET h == (x.legs[k].departure_time % SecondsPerDay) \div 3600
              IN  5 <= h /\ h < 22
    /\ i.no_overnight_layovers =>
          \A k \in DOMAIN x.layovers : ~x.layovers[k].overnight

\* request r has returned from a cache miss
ReturnedFromMiss(r) == ret[r] # None /\ ~ret[r][1].cache_hit

\* C23 (as claimed): every itinerary of the batch that search(intent) returns
\* on a cache miss satisfies all constraints of the intent, evaluated on the
\* returned itinerary; and every fetched candidate that satisfies them all
\* passes the filter.
C23_ReturnedSatisfyIntent ==
    \A r \in Reqs :
        /\ ReturnedFromMiss(r) =>
              \A k \in DOMAIN ret[r][1].itineraries :
                  SatisfiesIntent(ret[r][1].itineraries[k], intent[r])
        /\ (dataset # None /\ pc[r] = "normalize") =>
              \A k \in DOMAIN GoodRecords :
                  SatisfiesIntent(GoodRecords[k], intent[r]) =>
                      \E j \in DOMAIN batch[r] : batch[r][j] = GoodRecords[k]

-----------------------------------------------------------------------------
(* Claims about concurrent requests and the shared cache *)

SameKey(r, q) == _generate_cache_key(intent[r]) = _generate_cache_key(intent[q])

Missed(r) == lookup[r] # None /\ lookup[r][1].log = "miss"

Stored(r) == wrote[r] # None /\ wrote[r][1].log = "stored"

\* two requests for one key that both looked up before either stored
BothMissed(r, q) ==
    /\ r # q
    /\ SameKey(r, q)
    /\ Missed(r) /\ Missed(q)

\* requests that both missed are not held back: each runs its own stages,
\* fails in no cache stage, and returns its own fresh batch with the hit flag
\* cleared
ConcurrentMissesBothCompute ==
    \A r, q \in Reqs :
        BothMissed(r, q) =>
            /\ pc[r] = "failed" => stages[r] = SubSeq(AllStages, 1, 2)
            /\ pc[r] = "done" =>
                  /\ stages[r] = AllStages
                  /\ wrote[r] # None
                  /\ ret[r] = Some([itineraries |-> batch[r], cache_hit |-> FALSE])
                  /\ batch[r] \in FreshBatches(r)

\* the store of a request that missed replaces the entry that another request
\* for the same key has stored before
LaterStoreWins ==
    \A r, q \in Reqs :
        (BothMissed(r, q) /\ Stored(q) /\ pc[q] = "done"
            /\ pc[r] = "store" /\ pc'[r] = "done" /\ Stored(r)') =>
            store'[_generate_cache_key(intent[r])].data = Serialize(batch[r])

\* C24: concurrent requests for the same cache key are not serialized: two
\* requests that both look up before either stores both observe a miss, each
\* runs fetch, normalize, deduplicate and rank and returns with the hit flag
\* cleared, both write the cache, neither fails because of the other, and the
\* entry is then the batch of the later store.
C24_ConcurrentMisses == []ConcurrentMissesBothCompute /\ [][LaterStoreWins]_vars

\* C24 witness: two requests for one key have both missed, both stored and
\* both returned with the hit flag cleared; their batches differ, and the
\* entry holds the batch of r2.
C24_Witness ==
    /\ BothMissed("r1", "r2")
    /\ pc["r1"] = "done" /\ pc["r2"] = "done"
    /\ Stored("r1") /\ Stored("r2")
    /\ ReturnedFromMiss("r1") /\ ReturnedFromMiss("r2")
    /\ batch["r1"] # batch["r2"]
    /\ _generate_cache_key(intent["r2"]) \in DOMAIN store
    /\ store[_generate_cache_key(intent["r2"])].data = Serialize(batch["r2"])

\* request r has returned from a cache hit
ReturnedFromHit(r) == ret[r] # None /\ ret[r][1].cache_hit

\* C27 (as claimed): every itinerary that search(intent) returns on a cache
\* hit satisfies the constraints of the requesting intent (max_stops,
\* max_price_usd, max_duration_hours, no_red_eyes, no_overnight_layovers),
\* whichever intent populated the entry; and two intents that filter the
\* fetched candidates differently never map to the same cache key.
C27_HitSatisfiesIntent ==
    \A r \in Reqs :
        ReturnedFromHit(r) =>
            /\ \A k \in DOMAIN ret[r][1].itineraries :
                  SatisfiesIntent(ret[r][1].itineraries[k], intent[r])
            /\ \A q \in Reqs :
                  (Stored(q) /\ dataset # None
                      /\ _filter_by_intent(GoodRecords, intent[q])
                           # _filter_by_intent(GoodRecords, intent[r]))
                  => ~SameKey(q, r)

\* text contains frag
Contains(text, frag) ==
    \E i \in 1..(Len(text) - Len(frag) + 1) :
        SubSeq(text, i, i + Len(frag) - 1) = frag

\* the flags that _detect_risks can produce, with their penalties
DetectableFlags ==
    {"tight_connection", "long_layover", "overnight_layover", "airport_change",
     "red_eye"}

DetectablePenalty(f) ==
    CASE f = "tight_connection" -> 15
      [] f = "long_layover" -> 5
      [] f = "overnight_layover" -> 10
      [] f = "airport_change" -> 20
      [] f = "red_eye" -> 8

CriticalFlags == {"self_transfer", "separate_tickets"}

\* request r has passed the normalize stage of a miss
PastNormalize(r) ==
    \E k \in DOMAIN stages[r] : stages[r][k] = "normalize"

\* C28: normalize replaces the candidate's risk flags wholesale: in every
\* batch past the normalize stage the flags are a duplicate-free subset of
\* the five detectable flags, and a supplied self_transfer or
\* separate_tickets flag is gone; so no itinerary returned on a cache miss
\* carries one of the two, its risk score holds the penalties of detectable
\* flags only, and its explanation has no critical-risk callout.
C28_SuppliedFlagsDiscarded ==
    \A r \in Reqs :
        /\ (PastNormalize(r) /\ pc[r] # "failed") =>
              \A k \in DOMAIN batch[r] :
                  /\ Range(batch[r][k].risk_flags) \subseteq DetectableFlags
                  /\ NoRepeats(batch[r][k].risk_flags)
        /\ ReturnedFromMiss(r) =>
              \A k \in DOMAIN ret[r][1].itineraries :
                  LET x == ret[r][1].itineraries[k]
                  IN  /\ Range(x.risk_flags) \cap CriticalFlags = {}
                      /\ x.score_breakdown[1].risk_score
                            = 100 * (100 - SeqSum([j \in DOMAIN x.risk_flags |->
                                            DetectablePenalty(x.risk_flags[j])]))
                      /\ ~Contains(x.explanation[1], "! ")

\* C28 witness: a miss over a dataset whose record itin_4 is supplied with
\* the flag self_transfer returns itin_4 with the flag red_eye alone.
C28_Witness ==
    /\ ReturnedFromMiss("r1")
    /\ dataset # None
    /\ \E k \in DOMAIN GoodRecords :
          /\ GoodRecords[k].itinerary_id = "itin_4"
          /\ "self_transfer" \in Range(GoodRecords[k].risk_flags)
    /\ \E k \in DOMAIN ret["r1"][1].itineraries :
          /\ ret["r1"][1].itineraries[k].itinerary_id = "itin_4"
          /\ ret["r1"][1].itineraries[k].risk_flags = <<"red_eye">>

\* C30 (as claimed): on a cache miss the intent's filters and the
\* normalizer's risk flags agree: with no_red_eyes set no returned itinerary
\* carries red_eye, and with no_overnight_layovers set none carries
\* overnight_layover.
C30_FiltersAgreeWithFlags ==
    \A r \in Reqs :
        ReturnedFromMiss(r) =>
            \A k \in DOMAIN ret[r][1].itineraries :
                LET flags == Range(ret[r][1].itineraries[k].risk_flags)
                IN  /\ intent[r].no_red_eyes => "red_eye" \notin flags
                    /\ intent[r].no_overnight_layovers =>
                          "overnight_layover" \notin flags

-----------------------------------------------------------------------------
(* Claims about the component scores *)

\* the per-layover score of the claim, in hundredths of a point times ten
LayoverBucket(d) ==
    IF d < 60 THEN 30
    ELSE IF d <= 89 THEN 80
    ELSE IF d <= 180 THEN 100
    ELSE IF d <= 360 THEN 70
    ELSE 40

PerLayoverScore(l) ==
    LayoverBucket(l.duration_minutes)
    * (IF l.overnight THEN 5 ELSE 10) * (IF l.airport_change THEN 6 ELSE 10) * 10

\* C25: layover_score is 100 for an itinerary without layovers; otherwise it
\* is the average over its layovers of the bucket score by duration (90..180:
\* 100; 60..89: 80; below 60: 30; 181..360: 70; above 360: 40), multiplied by
\* 0.5 if the layover is overnight and by 0.6 if it requires an airport
\* change.
C25_LayoverScore ==
    rOut # None =>
        \A i \in DOMAIN rOut[1] :
            LET x == rOut[1][i]
                n == Len(x.layovers)
                actual == x.score_breakdown[1].layover_score
            IN  IF n = 0 THEN actual = 10000
                ELSE \* actual is the average, rounded to two decimals
                     LET total == SeqSum([k \in 1..n |-> PerLayoverScore(x.layovers[k])])
                     IN  /\ 2 * 10 * n * actual <= 2 * total + 10 * n
                         /\ 2 * 10 * n * actual >= 2 * total - 10 * n

\* C25 witness: a ranked candidate with a layover of 180 minutes that is
\* overnight with an airport change, and a second, comfortable layover:
\* (100 * 0.5 * 0.6 + 100) / 2 = 65.
C25_Witness ==
    /\ rOut # None /\ Len(rOut[1]) = 1
    /\ rOut[1][1].layovers = <<MkLayover(180, TRUE, TRUE), MkLayover(120, FALSE, FALSE)>>
    /\ rOut[1][1].score_breakdown[1].layover_score = 6500

\* the baggage fragments _generate_explanation can append
BaggageFragments == {"bags included", "carry-on included"}

\* C26: the explanation of a ranked candidate contains a baggage fragment
\* exactly when the candidate has an included carry-on or an included
\* checked bag (either alone, or both).
C26_BaggageFragment ==
    rOut # None =>
        \A i \in DOMAIN rOut[1] :
            LET x == rOut[1][i]
            IN  (HasIncludedItem(x, "carry_on") \/ HasIncludedItem(x, "checked"))
                <=> (\E frag \in BaggageFragments : Contains(x.explanation[1], frag))

SubScores ==
    {"price_score", "duration_score", "stops_score", "layover_score",
     "baggage_score", "risk_score", "reliability_score"}

\* C29: after rank_itineraries on a non-empty batch every candidate carries a
\* score breakdown whose seven sub-scores each lie in [0, 100], together with
\* the weight profile of the ranker, and a total score in [0, 100].
C29_ScoresInRange ==
    (rOut # None /\ rIn # <<>>) =>
        /\ Len(rOut[1]) = Len(rIn)
        /\ \A i \in DOMAIN rOut[1] :
              LET x == rOut[1][i]
              IN  /\ x.score_breakdown # None
                  /\ \A f \in SubScores :
                        0 <= x.score_breakdown[1][f]
                        /\ x.score_breakdown[1][f] <= 10000
                  /\ x.score_breakdown[1].weights = rWeights[1]
                  /\ x.score # None
                  /\ 0 <= x.score[1] /\ x.score[1] <= 10000

\* C29 witness: a ranked candidate whose risk penalties add up to 110 has
\* the risk score 0 and a total within the range.
C29_Witness ==
    /\ rOut # None /\ Len(rOut[1]) = 1
    /\ Len(rOut[1][1].risk_flags) = 4
    /\ rOut[1][1].score_breakdown[1].risk_score = 0
    /\ rOut[1][1].score[1] > 0 /\ rOut[1][1].score[1] < 10000

====
